---- MODULE Spec2Model ----
(***************************************************************************)
(* SignalScan PRO: the tiered data pipeline (Tier-1 prefilter, Tier-2      *)
(* validator, Tier-3 categorizer) and the news / halt collectors, as state *)
(* machines over the vault documents they share.                           *)
(*                                                                         *)
(* Units: prices are in cents (0.75 -> 75, 17.00 -> 1700), so that the     *)
(* float comparisons of the source are exact integer comparisons; ages are *)
(* in minutes (2 h -> 120, 72 h -> 4320).                                  *)
(***************************************************************************)
EXTENDS Integers, Sequences, FiniteSets, Bags, TLC

Symbols == {"AAA", "BBB"}

\* Python's None for a numeric field that is absent (info.get(...) -> None).
None == -1

\* Python truthiness of an optional number: None and 0 are falsy.
Truthy(x) == x # None /\ x # 0

\* a or b
PyOr(a, b) == IF Truthy(a) THEN a ELSE b

Elems(seq) == {seq[i] : i \in 1..Len(seq)}

InSeq(x, seq) == x \in Elems(seq)

\* The sequences over S without repetition (the key order of a dict).
UniqueSeqs(S) ==
  UNION {{q \in [1..n -> S] : \A i, j \in 1..n : i # j => q[i] # q[j]} :
         n \in 0..Cardinality(S)}

VARIABLES
  \* ---- Tier-1 (scanners/tier1_yfinance.py)
  registry,         \* master_registry.json as the next load will find it
  vault_prefilter,  \* the Prefiltered Set document (prefilter.json)
  t1_pc,            \* position of the Tier-1 thread in _run_loop
  t1_stop,          \* Tier1YFinance.stop_event
  t1_last,          \* history: what the last run_scan cycle loaded and did
  \* ---- Halt Collector (scanners/halt_monitor.py)
  vault_active,     \* the Active Halts document: symbol -> halt record
  vault_hist,       \* the Historical Halts document: <<symbol, time>> -> record
  h_pc,             \* position of the HaltMonitor thread in _run_loop
  h_stop,           \* HaltMonitor.stop_event
  h_clock,          \* int(time.time()) as the next cycle will read it
  h_life,           \* history, per symbol: "halted" after a HALTED entry was
                    \* applied, "resumed" once a RESUMED entry followed it
  h_base,           \* history, per symbol: its Historical records when it halted
  h_feed,           \* history: what the last cycle's fetch of the feed yielded
                    \* and how its saves went
  \* ---- News Collector (scanners/news_aggregator.py)
  vault_bk,         \* the Breaking News document (bkgnews.json): id -> record
  vault_gen,        \* the General News document (news.json): id -> record
  n_seen,           \* NewsAggregator.seen_news_ids
  n_idx,            \* NewsAggregator.current_provider_index
  n_clock,          \* datetime.now(), in minutes
  n_pc,             \* per activity: its position in _process_news_item
  n_item,           \* per activity: the item it is processing
  n_queue,          \* per activity: the fetched items still to process
  n_local,          \* per activity: the locals age_hours, category, loaded doc
  n_classified,     \* history, per id: times it went on to classification
  n_log,            \* history: the last fetch of the secondary loop and the
                    \* number of empty fetches in a row just before it
  n_unsaved,        \* history, per document: ids of the records whose write
                    \* to it failed
  n_stream,         \* self.news_stream: "none", "running", or "ended" once
                    \* run() has returned or raised in the primary thread
  \* ---- the market clock (datetime.utcnow() of Tier-2 and Tier-3)
  mkt_now,
  \* ---- Tier-2 (scanners/tier2_alpaca.py)
  vault_validated,  \* the Validated Snapshot document: a list of snapshots
  t2_stream,        \* self.stream: "none", or the state of the stream object
  t2_subs,          \* the stream object: per symbol, the subscribe_quotes /
                    \* subscribe_trades calls that named it
  t2_subscribed,    \* AlpacaValidator.subscribed_symbols
  t2_validated,     \* AlpacaValidator.validated_data, in insertion order
  t2_pc,            \* position of the Tier-2 thread in _run_loop
  t2_stop,          \* AlpacaValidator.stop_event
  \* ---- Tier-3 connection (scanners/tier3_tradier.py)
  t3_ws,            \* self.ws: "none", or the state of the WebSocketApp
  t3_session,       \* self.session_id: "none" or "ok"
  t3_subscribed,    \* TradierCategorizer.subscribed_symbols
  t3_sent,          \* the feed: symbols of the subscribe messages that
                    \* reached it on the connection self.ws stands for
  t3_pc,            \* position of the Tier-3 thread in _run_loop
  t3_stop,          \* TradierCategorizer.stop_event
  t3_close_pc,      \* position of the close handler: "idle" or "waiting"
  t3_drops,         \* history: connections lost so far
  t3_before,        \* history: symbols the feed held on a lost connection
  t3_poll,          \* the poll under way: the symbols it has loaded, the
                    \* subscribe messages it makes of them and how many
                    \* of these it has handed to ws.send
  \* ---- Tier-3 ticks
  t3_live,          \* TradierCategorizer.live_data
  t3_day_highs,     \* TradierCategorizer.day_highs
  t3_history,       \* TradierCategorizer.price_history
  t3_channels,      \* TradierCategorizer.channels
  t3_events,        \* history: ticks handled so far
  t3_track,         \* history: per symbol, the highest price and the last
                    \* hod_price of its earlier ticks
  t3_out,           \* history: what the last tick produced
  \* ---- _enrich_stock_data as a function of its inputs
  e_in,             \* the snapshot, rolling state and clock of the builds
  e_out,            \* the records of the builds of EnrichTwice
  \* ---- start() / stop() / _run_loop of one polling loop
  lc_loop,          \* the loop looked at: "none" until its first start()
  lc_stop,          \* its stop_event
  lc_threads,       \* the threads its start() calls created, oldest first
  lc_caller,        \* the thread calling start() and stop(): "idle", or
                    \* "joining" inside stop()'s thread.join(timeout=5)
  \* ---- Tier-2, statement by statement: _update_subscriptions on the polling
  \* thread against the handlers on the stream's thread
  t2_poll,          \* the polling thread inside _update_subscriptions: the
                    \* new symbols still to backfill, the answer in hand
  t2_cb,            \* the stream's thread: the handler it is in, if any
  t2_hist,          \* history: backfill queries per symbol, the symbols a
                    \* stream tick / a stream quote tick has been merged for
  \* ---- NASDAQ halt scanner (scanners/tier2_halts.py)
  hs_active,        \* self.active_halts
  hs_feed,          \* history: the feed the last _fetch_halts read
  hs_scans          \* _fetch_halts calls so far

t1vars == <<registry, vault_prefilter, t1_pc, t1_stop, t1_last>>

haltvars == <<vault_active, vault_hist, h_pc, h_stop, h_clock, h_life, h_base,
              h_feed>>

newsvars == <<vault_bk, vault_gen, n_seen, n_idx, n_clock, n_pc, n_item, n_queue,
              n_local, n_classified, n_log, n_stream, n_unsaved>>

t2vars == <<vault_validated, t2_stream, t2_subs, t2_subscribed, t2_validated,
            t2_pc, t2_stop>>

t3connvars == <<t3_ws, t3_session, t3_subscribed, t3_sent, t3_pc, t3_stop,
                t3_close_pc, t3_drops, t3_before, t3_poll>>

t3tickvars == <<t3_live, t3_day_highs, t3_history, t3_channels, t3_events,
                t3_track, t3_out>>

enrichvars == <<e_in, e_out>>

loopvars == <<lc_loop, lc_stop, lc_threads, lc_caller>>

\* The harness and lifecycle groups, which the pipeline actions leave alone.
racevars == <<t2_poll, t2_cb, t2_hist>>

scanvars == <<hs_active, hs_feed, hs_scans>>

latevars == <<enrichvars, loopvars, racevars, scanvars>>

vars == <<t1vars, haltvars, newsvars, mkt_now, t2vars, t3connvars, t3tickvars, latevars>>

\* What each component leaves alone.
otherT1 == <<haltvars, newsvars, mkt_now, t2vars, t3connvars, t3tickvars, latevars>>
otherHalt == <<t1vars, newsvars, mkt_now, t2vars, t3connvars, t3tickvars, latevars>>
otherNews == <<t1vars, haltvars, mkt_now, t2vars, t3connvars, t3tickvars, latevars>>
otherT2 == <<t1vars, haltvars, newsvars, t3connvars, t3tickvars, latevars>>
otherClock == <<t1vars, haltvars, newsvars, t2vars, t3connvars, t3tickvars, latevars>>
otherT3Conn == <<t1vars, haltvars, newsvars, mkt_now, t2vars, t3tickvars, latevars>>
otherT3Tick == <<t1vars, haltvars, newsvars, mkt_now, t2vars, t3connvars, latevars>>
otherPipeline == <<t1vars, haltvars, newsvars, mkt_now, t2vars, t3connvars, t3tickvars>>
otherEnrich == <<otherPipeline, loopvars, racevars, scanvars>>
otherLoops == <<otherPipeline, enrichvars, racevars, scanvars>>
otherRace == <<t1vars, haltvars, newsvars, mkt_now, t3connvars, t3tickvars,
               enrichvars, loopvars, scanvars>>
otherScan == <<t1vars, newsvars, mkt_now, t2vars, t3connvars, t3tickvars,
               enrichvars, loopvars, racevars>>

(***************************************************************************)
(* Tier-1 prefilter                                                        *)
(***************************************************************************)

\* Thresholds of filter_tickers (prices in cents).
MinVolume == 5000000
MinPrice == 75
MaxPrice == 1700

\* What yfinance reports for one symbol: ticker.info's four fields, or an
\* exception while fetching (err).
Info(cp, rmp, av, av10, err) ==
  [currentPrice |-> cp, regularMarketPrice |-> rmp, averageVolume |-> av,
   averageVolume10days |-> av10, err |-> err]

InfoSamples ==
  { Info(500, None, 6000000, None, FALSE),      \* passes (AAA of the scenario)
    Info(500, None, 1000000, None, FALSE),      \* volume too low (BBB)
    Info(500, None, 5000000, None, FALSE),      \* volume exactly at the bound
    Info(500, None, 5000001, None, FALSE),
    Info(75, None, 6000000, None, FALSE),       \* price exactly 0.75
    Info(76, None, 6000000, None, FALSE),
    Info(1699, None, 6000000, None, FALSE),
    Info(1700, None, 6000000, None, FALSE),     \* price exactly 17.00
    Info(None, 500, None, 6000000, FALSE),      \* both fallbacks used
    Info(0, 1800, 0, 6000000, FALSE),           \* falsy 0 falls through
    Info(500, 1800, 6000000, 10, FALSE),        \* first field wins
    Info(None, None, 6000000, None, FALSE),     \* no price
    Info(500, None, None, None, FALSE),         \* no volume
    Info(500, None, 6000000, None, TRUE) }      \* fetch raises

NoInfo == [s \in Symbols |-> Info(None, None, None, None, FALSE)]

\* The registry file: missing, unreadable, or a document whose "tickers"
\* object has these keys in this order (possibly none).
RegistryStates ==
  {[kind |-> "missing", tickers |-> <<>>], [kind |-> "corrupt", tickers |-> <<>>]}
  \cup {[kind |-> "ok", tickers |-> q] : q \in UniqueSeqs(Symbols)}

load_master_tickers(reg) ==
  IF reg.kind = "missing" THEN <<>>
  ELSE IF reg.kind = "corrupt" THEN <<>>
  ELSE reg.tickers

\* price = info.get('currentPrice') or info.get('regularMarketPrice')
PriceOf(i) == PyOr(i.currentPrice, i.regularMarketPrice)

\* volume = info.get('averageVolume') or info.get('averageVolume10days')
VolumeOf(i) == PyOr(i.averageVolume, i.averageVolume10days)

Admit_NonStrict(price, volume) ==
  volume >= MinVolume /\ MinPrice <= price /\ price <= MaxPrice

\* if volume > 5_000_000 and .75 < price < 17.00
Admit(price, volume) ==
  volume > MinVolume /\ MinPrice < price /\ price < MaxPrice

\* One iteration of the inner loop of filter_tickers: does symbol's info
\* get it appended?
Passes(i) ==
  /\ ~i.err
  /\ Truthy(PriceOf(i))
  /\ Truthy(VolumeOf(i))
  /\ Admit(PriceOf(i), VolumeOf(i))

RECURSIVE filter_tickers(_, _)
filter_tickers(tickers, info) ==
  IF tickers = <<>> THEN <<>>
  ELSE LET s == Head(tickers)
           rest == filter_tickers(Tail(tickers), info)
       IN IF Passes(info[s]) THEN <<s>> \o rest ELSE rest

\* FileManager.save_prefilter: full replacement of the document, or a write
\* that fails: the document stays as it was and the failure is raised to the
\* caller.
SaveOutcomes == {"ok", "raises"}

save_prefilter(old, new, outcome) == IF outcome = "ok" THEN new ELSE old

no_tickers_Never(tickers) == FALSE

\* if not tickers: return
no_tickers(tickers) == tickers = <<>>

run_scan_SkipEmpty(old, tickers, info, outcome) ==
  LET filtered == filter_tickers(tickers, info)
  IN IF filtered = <<>> THEN old ELSE save_prefilter(old, filtered, outcome)

\* run_scan past its load: the Prefiltered Set document after the filter and
\* the save of the list that passed.
run_scan(old, tickers, info, outcome) ==
  save_prefilter(old, filter_tickers(tickers, info), outcome)

\* The registry file is replaced, removed or damaged, at any moment of a
\* cycle or between cycles.
RegistryChange ==
  /\ \E r \in RegistryStates : registry' = r /\ r # registry
  /\ UNCHANGED <<vault_prefilter, t1_pc, t1_stop, t1_last>>
  /\ UNCHANGED otherT1

\* _run_loop, loop test with the stop event clear: the thread enters
\* run_scan. What run_scan then does takes no further look at the event.
T1Enter ==
  /\ t1_pc = "head"
  /\ ~t1_stop
  /\ t1_pc' = "scan"
  /\ UNCHANGED <<registry, vault_prefilter, t1_stop, t1_last>>
  /\ UNCHANGED otherT1

\* run_scan, the load: the registry as it is now gives the cycle its list;
\* with no tickers the cycle returns and the sleep of the interval begins.
T1Load ==
  /\ t1_pc = "scan"
  /\ LET tickers == load_master_tickers(registry)
     IN /\ t1_last' = [outcome |-> IF no_tickers(tickers) THEN "aborted"
                                   ELSE "loaded",
                       tickers |-> tickers, info |-> NoInfo,
                       before |-> vault_prefilter]
        /\ t1_pc' = IF no_tickers(tickers) THEN "sleep" ELSE "save"
  /\ UNCHANGED <<registry, vault_prefilter, t1_stop>>
  /\ UNCHANGED otherT1

\* run_scan, after the load: the filter on the list the cycle loaded (the
\* fetches and the waits between batches read nothing of the program's
\* state) and the save of what passed. A save that raises leaves run_scan
\* for the except branch of _run_loop, which sleeps 60 s instead.
T1Save ==
  /\ t1_pc = "save"
  /\ \E info \in [Symbols -> InfoSamples], outcome \in SaveOutcomes :
       /\ vault_prefilter' =
            run_scan(vault_prefilter, t1_last.tickers, info, outcome)
       /\ t1_last' = [outcome |-> IF outcome = "ok" THEN "saved" ELSE "failed",
                      tickers |-> t1_last.tickers, info |-> info,
                      before |-> vault_prefilter]
       /\ t1_pc' = IF outcome = "ok" THEN "sleep" ELSE "error"
  /\ UNCHANGED <<registry, t1_stop>>
  /\ UNCHANGED otherT1

\* time.sleep(self.scan_interval) returns.
T1Wake ==
  /\ t1_pc = "sleep"
  /\ t1_pc' = "head"
  /\ UNCHANGED <<registry, vault_prefilter, t1_stop, t1_last>>
  /\ UNCHANGED otherT1

\* except branch of _run_loop: time.sleep(60) returns.
T1ErrorWake ==
  /\ t1_pc = "error"
  /\ t1_pc' = "head"
  /\ UNCHANGED <<registry, vault_prefilter, t1_stop, t1_last>>
  /\ UNCHANGED otherT1

\* _run_loop, loop head with the stop event set: the thread ends.
T1Exit ==
  /\ t1_pc = "head"
  /\ t1_stop
  /\ t1_pc' = "done"
  /\ UNCHANGED <<registry, vault_prefilter, t1_stop, t1_last>>
  /\ UNCHANGED otherT1

\* stop(): sets the event.
T1Stop ==
  /\ ~t1_stop
  /\ t1_stop' = TRUE
  /\ UNCHANGED <<registry, vault_prefilter, t1_pc, t1_last>>
  /\ UNCHANGED otherT1

(***************************************************************************)
(* Tier-1 claims                                                           *)
(***************************************************************************)

\* The list that passed the filter in the last cycle, in universe order.
PassedLast == SelectSeq(t1_last.tickers, LAMBDA s : Passes(t1_last.info[s]))

\* C4, as stated: after any run_scan cycle that loaded a non-empty universe
\* (its save written or failed), the persisted Prefiltered Set is exactly the
\* list of the symbols that passed the filter in that cycle.
C4_PrefilterReplacedTotally ==
  t1_last.outcome \in {"saved", "failed"} => vault_prefilter = PassedLast

\* C4, amended: after a run_scan cycle that loaded a non-empty universe and
\* whose save was written, the persisted Prefiltered Set is exactly the list
\* (in universe order) of the symbols that passed the filter in that cycle,
\* also when none passed: nothing of the set of the cycle before survives
\* unless it passed again. After a cycle whose save failed the set is the
\* one of before.
C4_ReplacedWhenSaved ==
  /\ t1_last.outcome = "saved" => vault_prefilter = PassedLast
  /\ t1_last.outcome = "failed" => vault_prefilter = t1_last.before

\* A cycle that found a non-empty set persisted, in which no symbol passed.
C4_Witness ==
  /\ t1_last.outcome = "saved"
  /\ t1_last.before # <<>>
  /\ vault_prefilter = <<>>

\* C5: a symbol of the universe with an available price and average volume
\* is admitted iff average_volume > 5,000,000 and 0.75 < price < 17.00, all
\* three bounds strict.
C5_FilterIffStrictBounds ==
  t1_last.outcome = "saved" =>
    \A s \in Elems(t1_last.tickers) :
      LET i == t1_last.info[s]
          price == PriceOf(i)
          volume == VolumeOf(i)
      IN (~i.err /\ Truthy(price) /\ Truthy(volume)) =>
           (InSeq(s, vault_prefilter) <=>
              (volume > 5000000 /\ price > 75 /\ price < 1700))

\* The scenario of the specification: AAA (volume 6,000,000, price 5.00) and
\* BBB (volume 1,000,000) give the Prefiltered Set [AAA].
C5_Witness ==
  /\ t1_last.outcome = "saved"
  /\ t1_last.tickers = <<"AAA", "BBB">>
  /\ t1_last.info["AAA"] = Info(500, None, 6000000, None, FALSE)
  /\ t1_last.info["BBB"] = Info(500, None, 1000000, None, FALSE)
  /\ vault_prefilter = <<"AAA">>

UniverseUnloadable ==
  registry.kind \in {"missing", "corrupt"} \/ registry.tickers = <<>>

\* C6: a cycle whose load finds the universe unloadable (registry missing,
\* unreadable or empty at the load) ends there and sleeps; the Prefiltered
\* Set document is written only by a cycle that loaded a list, so it stays
\* as it was until such a cycle saves; the loop stays alive: the sleep
\* returns, and with the stop event clear the next cycle can run.
C6_AbortKeepsPrefilter ==
  /\ [][(t1_pc = "scan" /\ t1_pc' # "scan" /\ UniverseUnloadable)
          => (vault_prefilter' = vault_prefilter /\ t1_pc' = "sleep")]_vars
  /\ [][vault_prefilter' # vault_prefilter
          => (t1_pc = "save" /\ t1_last.outcome = "loaded"
              /\ t1_last.tickers # <<>>)]_vars
  /\ [](t1_pc = "sleep" => ENABLED T1Wake)
  /\ []((t1_pc = "head" /\ ~t1_stop) => ENABLED T1Enter)
  /\ [](t1_pc = "scan" => ENABLED T1Load)

\* An aborted cycle left a non-empty set in place and the loop is back at its
\* head, about to run the next cycle.
C6_Witness ==
  /\ t1_last.outcome = "aborted"
  /\ vault_prefilter # <<>>
  /\ t1_pc = "head"
  /\ ~t1_stop

InitTier1 ==
  /\ registry = [kind |-> "ok", tickers |-> <<"AAA", "BBB">>]
  /\ vault_prefilter = <<>>
  /\ t1_pc = "head"
  /\ t1_stop = FALSE
  /\ t1_last = [outcome |-> "none", tickers |-> <<>>, info |-> NoInfo,
                before |-> <<>>]

NextTier1 ==
  \/ RegistryChange \/ T1Enter \/ T1Load \/ T1Save
  \/ T1Wake \/ T1ErrorWake \/ T1Exit \/ T1Stop


(***************************************************************************)
(* Vault documents: mappings id -> record, loaded whole and replaced whole *)
(***************************************************************************)

EmptyDoc == <<>>

Put(doc, k, v) == [x \in (DOMAIN doc) \cup {k} |-> IF x = k THEN v ELSE doc[x]]

Del(doc, k) == [x \in (DOMAIN doc) \ {k} |-> doc[x]]

\* dict.update: the keys of upd take upd's values.
Merge(old, upd) ==
  [k \in (DOMAIN old) \cup (DOMAIN upd) |-> IF k \in DOMAIN upd THEN upd[k] ELSE old[k]]

\* A dict whose order matters is kept as its items in insertion order.
DictHas(d, k) == \E i \in 1..Len(d) : d[i].key = k

DictGet(d, k) == d[CHOOSE i \in 1..Len(d) : d[i].key = k].val

DictValues(d) == [i \in 1..Len(d) |-> d[i].val]

(***************************************************************************)
(* Halt Collector                                                          *)
(***************************************************************************)

\* Cycles of the halt loop the model runs (the clock is capped by it).
MaxHaltCycles == 3

\* Items of one feed document.
MaxFeedLen == 2

\* An <item> of the RSS document.
\*   title: "absent" (no <title> element, read as ''), "empty" (<title/>,
\*          whose .text is None), "other" (text without 'Symbol:'), "symbol"
\*   symbol, hasHalt, hasResume: the text after 'Symbol:', split at '-': the
\*          symbol, and whether the status text contains 'halt' / 'resume'
\*   desc:  "text", "absent" (read as '') or "empty" (.text is None)
FeedItem(title, symbol, hasHalt, hasResume, desc) ==
  [title |-> title, symbol |-> symbol, hasHalt |-> hasHalt,
   hasResume |-> hasResume, desc |-> desc]

FeedItems ==
  {FeedItem("symbol", s, TRUE, FALSE, "text") : s \in Symbols}       \* halt
  \cup {FeedItem("symbol", s, FALSE, TRUE, "text") : s \in Symbols}  \* resume
  \cup { FeedItem("symbol", "AAA", TRUE, FALSE, "empty"),
         FeedItem("symbol", "BBB", FALSE, FALSE, "absent"),
         FeedItem("symbol", "AAA", TRUE, TRUE, "text"),
         FeedItem("empty", "AAA", TRUE, FALSE, "text"),
         FeedItem("other", "BBB", TRUE, FALSE, "text") }

\* What one fetch of the feed yields: a failure (network error, status other
\* than 200, unparseable document) or the document's items in order.
Feeds ==
  {[ok |-> FALSE, items |-> <<>>]}
  \cup {[ok |-> TRUE, items |-> q] :
          q \in UNION {[1..n -> FeedItems] : n \in 0..MaxFeedLen}}

\* The publication date of the feed's items (pubDate).
PubDate == 1

\* 'reason': description
ReasonOf(desc) ==
  IF desc = "text" THEN "LUDP" ELSE IF desc = "absent" THEN "" ELSE "None"

\* Lines 94-119: whether the item adds an entry to the dict. An empty <title/>
\* raises ('Symbol:' in None) and is skipped; a title without 'Symbol:' adds
\* nothing.
ItemParses(it) == it.title = "symbol"

\* is_halted = 'halt' in status_text.lower() and 'resume' not in status_text.lower()
IsHalted(it) == it.hasHalt /\ ~it.hasResume

HaltData_Stamped(it, now) ==
  [symbol |-> it.symbol,
   halt_time |-> PubDate,
   resume_time |-> PubDate,
   reason |-> ReasonOf(it.desc),
   status |-> IF IsHalted(it) THEN "halted" ELSE "resumed",
   exchange |-> "NASDAQ",
   timestamp |-> now]

\* Lines 108-116: the entry built for an item whose title names a symbol.
HaltData(it, now) ==
  [symbol |-> it.symbol,
   halt_time |-> PubDate,
   resume_time |-> IF IsHalted(it) THEN None ELSE PubDate,
   reason |-> ReasonOf(it.desc),
   status |-> IF IsHalted(it) THEN "halted" ELSE "resumed",
   exchange |-> "NASDAQ",
   timestamp |-> now]

\* halts[symbol] = {...} on a dict kept as its items in insertion order: a
\* key already present keeps its place and takes the new value.
DictSet(d, k, v) ==
  IF \E i \in 1..Len(d) : d[i].key = k
  THEN [i \in 1..Len(d) |-> IF d[i].key = k THEN [key |-> k, val |-> v] ELSE d[i]]
  ELSE Append(d, [key |-> k, val |-> v])

RECURSIVE ParseItems(_, _, _)
ParseItems(items, halts, now) ==
  IF items = <<>> THEN halts
  ELSE LET it == Head(items)
       IN ParseItems(Tail(items),
                     IF ItemParses(it)
                     THEN DictSet(halts, it.symbol, HaltData(it, now))
                     ELSE halts,
                     now)

\* _fetch_nasdaq_halts: the dict symbol -> halt data, {} on a failure.
fetch_nasdaq_halts(feed, now) ==
  IF ~feed.ok THEN <<>> ELSE ParseItems(feed.items, <<>>, now)

\* halt_id = f"{symbol}_{int(time.time())}"
HaltId(symbol, now) == <<symbol, now>>

\* The loop body of _process_halts on the entries left, threading the two
\* loaded documents; raised: the log line of a halted entry sliced a reason
\* that is None, which ends _process_halts before its saves.
RECURSIVE ProcessEntries(_, _, _, _)
ProcessEntries(d, active, hist, now) ==
  IF d = <<>> THEN [active |-> active, hist |-> hist, raised |-> FALSE]
  ELSE LET symbol == Head(d).key
           halt_data == Head(d).val
       IN IF halt_data.status = "halted"
          THEN IF halt_data.reason = "None"
               THEN [active |-> active, hist |-> hist, raised |-> TRUE]
               ELSE ProcessEntries(Tail(d), Put(active, symbol, halt_data),
                                   hist, now)
          ELSE ProcessEntries(Tail(d), Del(active, symbol),
                              Put(hist, HaltId(symbol, now), halt_data), now)

\* How the two saves that end _process_halts go: both return, or
\* save_active_halts raises, or it returns and save_halts raises.
HaltSaveOutcomes == {"ok", "active_raises", "hist_raises"}

\* _process_halts: the two documents after it, from the two as loaded.
\* save_active_halts comes first: when it raises neither document is
\* written, when save_halts raises Active Halts is and Historical Halts is
\* not. The except of the method logs either and returns.
process_halts(d, active, hist, now, outcome) ==
  LET r == ProcessEntries(d, active, hist, now)
  IN IF r.raised \/ outcome = "active_raises"
     THEN [active |-> active, hist |-> hist, saved |-> FALSE]
     ELSE IF outcome = "hist_raises"
     THEN [active |-> r.active, hist |-> hist, saved |-> FALSE]
     ELSE [active |-> r.active, hist |-> r.hist, saved |-> TRUE]

fetch_halts_Cleared(feed, active, hist, now, outcome) ==
  LET d == fetch_nasdaq_halts(feed, now)
  IN IF d = <<>> THEN [active |-> <<>>, hist |-> hist, saved |-> TRUE]
     ELSE process_halts(d, active, hist, now, outcome)

\* _fetch_halts: one cycle; an empty dict is not processed.
fetch_halts(feed, active, hist, now, outcome) ==
  LET d == fetch_nasdaq_halts(feed, now)
  IN IF d = <<>> THEN [active |-> active, hist |-> hist, saved |-> FALSE]
     ELSE process_halts(d, active, hist, now, outcome)

HistCount(hist, symbol) == Cardinality({k \in DOMAIN hist : k[1] = symbol})

\* History: the status of the entry the cycle applied for symbol, if any.
Applied(d, symbol) ==
  IF \E i \in 1..Len(d) : d[i].key = symbol
  THEN (CHOOSE i \in 1..Len(d) : d[i].key = symbol)
  ELSE 0

\* The interruptible wait of fetch_interval seconds returns and the test
\* after it finds the stop event clear: the thread enters _fetch_halts.
HaltWake ==
  /\ h_pc = "wait"
  /\ ~h_stop
  /\ h_clock < MaxHaltCycles
  /\ h_pc' = "fetch"
  /\ UNCHANGED <<vault_active, vault_hist, h_stop, h_clock, h_life, h_base,
                 h_feed>>
  /\ UNCHANGED otherHalt

\* One _fetch_halts of _run_loop: the first one at once, the later ones
\* after the wait and its test. The cycle takes no look at the stop event:
\* stop() may have set it while the request was out. Either save of
\* _process_halts may raise; h_feed keeps how the saves went, "ok" for a
\* cycle that did not get to them.
HaltCycleOn(feeds) ==
  /\ h_pc \in {"first", "fetch"}
  /\ h_clock < MaxHaltCycles
  /\ \E feed \in feeds, outcome \in HaltSaveOutcomes :
       LET d == fetch_nasdaq_halts(feed, h_clock)
           r == fetch_halts(feed, vault_active, vault_hist, h_clock, outcome)
       IN /\ \/ /\ d # <<>>
                   /\ ~ProcessEntries(d, vault_active, vault_hist,
                                      h_clock).raised
               \/ outcome = "ok"
          /\ vault_active' = r.active
          /\ vault_hist' = r.hist
          /\ h_life' = [s \in Symbols |->
                          IF r.saved /\ Applied(d, s) # 0
                          THEN IF d[Applied(d, s)].val.status = "halted"
                               THEN "halted"
                               ELSE IF h_life[s] = "none" THEN "none"
                               ELSE "resumed"
                          ELSE h_life[s]]
          /\ h_base' = [s \in Symbols |->
                          IF r.saved /\ Applied(d, s) # 0
                             /\ d[Applied(d, s)].val.status = "halted"
                          THEN HistCount(vault_hist, s) ELSE h_base[s]]
          /\ h_feed' = [ok |-> feed.ok, items |-> feed.items,
                        save |-> outcome]
  /\ h_pc' = "wait"
  /\ h_clock' = h_clock + 1
  /\ UNCHANGED h_stop
  /\ UNCHANGED otherHalt

HaltCycle == HaltCycleOn(Feeds)

\* The feeds that fail or hold fewer items than the longest.
ShortFeeds == {f \in Feeds : Len(f.items) < MaxFeedLen}

\* Cycles of a run on the shorter feeds.
MaxShortCycles == 2

\* A cycle on one of the shorter feeds.
HaltCycleShort == h_clock < MaxShortCycles /\ HaltCycleOn(ShortFeeds)

\* The wait ends with the stop event set: the loop and the thread end.
HaltExit ==
  /\ h_pc = "wait"
  /\ h_stop
  /\ h_pc' = "done"
  /\ UNCHANGED <<vault_active, vault_hist, h_stop, h_clock, h_life, h_base,
                 h_feed>>
  /\ UNCHANGED otherHalt

\* stop(): sets the event.
HaltStop ==
  /\ ~h_stop
  /\ h_stop' = TRUE
  /\ UNCHANGED <<vault_active, vault_hist, h_pc, h_clock, h_life, h_base,
                 h_feed>>
  /\ UNCHANGED otherHalt

(***************************************************************************)
(* Halt Collector claims                                                   *)
(***************************************************************************)

\* C2: once a HALTED entry for a symbol and later a RESUMED entry for it
\* have been processed, the symbol is absent from Active Halts and Historical
\* Halts holds exactly one record of that episode (one more than when the
\* symbol halted), in every state reached afterwards.
C2_ResumedOnceInHistory ==
  \A s \in Symbols :
    h_life[s] = "resumed" =>
      /\ s \notin DOMAIN vault_active
      /\ HistCount(vault_hist, s) = h_base[s] + 1

\* An entry _process_halts cannot handle: its log line slices the reason of
\* a halted entry, which is None for an empty <description/>.
Unprocessable(halt_data) ==
  halt_data.status = "halted" /\ halt_data.reason = "None"

\* C24: after a cycle in which no save raised, every entry of the fetched
\* feed other than the ones that could not be parsed or processed is applied
\* and persisted: a halted entry is the symbol's record in Active Halts, a
\* resumed entry's symbol is absent from Active Halts and its record is in
\* Historical Halts under the key of this cycle.
C24_OtherEntriesApplied ==
  (h_clock > 0 /\ h_feed.save = "ok") =>
    LET now == h_clock - 1
        d == fetch_nasdaq_halts(h_feed, now)
    IN \A i \in 1..Len(d) :
         LET symbol == d[i].key
             halt_data == d[i].val
         IN ~Unprocessable(halt_data) =>
              IF halt_data.status = "halted"
              THEN /\ symbol \in DOMAIN vault_active
                   /\ vault_active[symbol] = halt_data
              ELSE /\ symbol \notin DOMAIN vault_active
                   /\ HaltId(symbol, now) \in DOMAIN vault_hist
                   /\ vault_hist[HaltId(symbol, now)] = halt_data

\* C32: a RESUMED entry of the fetched feed for a symbol that is not in
\* Active Halts is a no-op: the cycle leaves the symbol out of Active Halts
\* and writes no record for it to Historical Halts; a cycle whose feed holds
\* nothing else leaves both documents unchanged.
C32_LoneResumeIsNoOp ==
  [][h_clock' = h_clock + 1 =>
       LET d == fetch_nasdaq_halts(h_feed', h_clock)
           lone == {i \in 1..Len(d) : /\ d[i].val.status = "resumed"
                                      /\ d[i].key \notin DOMAIN vault_active}
       IN /\ \A i \in lone :
               /\ d[i].key \notin DOMAIN vault_active'
               /\ HaltId(d[i].key, h_clock) \notin DOMAIN vault_hist'
          /\ (Len(d) = 1 /\ lone = {1}) =>
               (vault_active' = vault_active /\ vault_hist' = vault_hist)]_vars

\* C37: every record of Active Halts has status 'halted' and no resume
\* time, every record of Historical Halts has status 'resumed', and a cycle
\* that writes Active Halts (its loop raised nothing and save_active_halts
\* returned) leaves no symbol it processed as resumed in it.
C37_RecordsMatchTheirDocument ==
  /\ [](/\ \A s \in DOMAIN vault_active :
             /\ vault_active[s].status = "halted"
             /\ vault_active[s].resume_time = None
         /\ \A k \in DOMAIN vault_hist : vault_hist[k].status = "resumed")
  /\ [][h_clock' = h_clock + 1 =>
          LET d == fetch_nasdaq_halts(h_feed', h_clock)
          IN (/\ d # <<>>
              /\ ~ProcessEntries(d, vault_active, vault_hist, h_clock).raised
              /\ h_feed'.save # "active_raises") =>
               \A i \in 1..Len(d) :
                 d[i].val.status = "resumed" =>
                   d[i].key \notin DOMAIN vault_active']_vars

\* BBB halted and the next cycle, whose saves both returned, processed it
\* as resumed: Active Halts is empty, Historical Halts holds one record of
\* BBB.
C37_Witness ==
  /\ h_life["BBB"] = "resumed"
  /\ h_feed.ok
  /\ h_feed.save = "ok"
  /\ DOMAIN vault_active = {}
  /\ HistCount(vault_hist, "BBB") = 1
  /\ \E k \in DOMAIN vault_hist : vault_hist[k].resume_time = PubDate

\* C25: a cycle whose fetch of the feed failed leaves Active Halts and
\* Historical Halts as they were, and the loop goes on: from its wait, with
\* the stop event clear, the next cycle can run.
C25_FetchFailureKeepsDocs ==
  /\ [][(h_clock' = h_clock + 1 /\ ~h_feed'.ok)
          => (vault_active' = vault_active /\ vault_hist' = vault_hist
              /\ h_pc' = "wait")]_vars
  /\ []((h_pc = "wait" /\ ~h_stop /\ h_clock < MaxHaltCycles)
          => ENABLED HaltWake)
  /\ [](h_pc = "fetch" => ENABLED HaltCycle)

\* The second cycle's fetch failed with a halt on file.
C25_Witness ==
  /\ h_clock = 2
  /\ ~h_feed.ok
  /\ DOMAIN vault_active = {"AAA"}
  /\ h_pc = "wait"

InitHalt ==
  /\ vault_active = EmptyDoc
  /\ vault_hist = EmptyDoc
  /\ h_pc = "first"
  /\ h_stop = FALSE
  /\ h_clock = 0
  /\ h_life = [s \in Symbols |-> "none"]
  /\ h_base = [s \in Symbols |-> 0]
  /\ h_feed = [ok |-> FALSE, items |-> <<>>, save |-> "ok"]

NextHalt == HaltWake \/ HaltCycle \/ HaltExit \/ HaltStop

NextHaltShort == HaltWake \/ HaltCycleShort \/ HaltExit \/ HaltStop

(***************************************************************************)
(* News Collector                                                          *)
(***************************************************************************)

\* Minutes the clock may advance in a run.
MaxTicks == 1

\* Items one fetch of a pull provider returns at most.
MaxBatch == 1

\* The clock when the collector starts, in minutes.
StartClock == 5000

\* Category bounds of categorize_news_by_age, in minutes (2 h, 72 h).
BreakingMaxAge == 120
GeneralMaxAge == 4320

\* self.secondary_providers, in priority order (index 0 first).
secondary_providers ==
  <<"polygon", "marketaux", "fmp", "newsapi", "alphavantage", "finnhub">>

\* The three activities that call _process_news_item: the push handler of
\* the primary stream, the secondary loop, and force_refresh (GUI thread).
Activities == {"primary", "secondary", "force"}

\* The canonical item the fetchers build. ts: the item's timestamp in
\* minutes; excl: whether should_exclude(headline) holds; provider: the
\* 'provider' key the fetcher sets ('alpaca', 'polygon', 'finnhub').
NewsItem(id, symbol, ts, excl, provider) ==
  [news_id |-> id, symbol |-> symbol, timestamp |-> ts, excl |-> excl,
   provider |-> provider]

\* The articles a source can deliver (every source delivers from these, so
\* one id can arrive from several sources). At StartClock their ages are
\* 2h00, 72h00 and 1h59.
NewsItems(provider) ==
  { NewsItem("n1", "AAA", StartClock - BreakingMaxAge, FALSE, provider),
    NewsItem("n2", "BBB", StartClock - GeneralMaxAge, FALSE, provider),
    NewsItem("n3", "AAA", StartClock - BreakingMaxAge + 1, TRUE, provider) }

NewsIds == {it.news_id : it \in NewsItems("")}

NoItem == NewsItem("", "", 0, FALSE, "")

NoLocal == [age_hours |-> 0, category |-> "", loaded |-> EmptyDoc]

\* _fetch_polygon / _fetch_finnhub: the list returned, [] on any failure.
Batches(provider) == UNION {[1..n -> NewsItems(provider)] : n \in 0..MaxBatch}

\* _fetch_from_provider: what a provider can return. Only Polygon and
\* Finnhub are implemented; the others are placeholders returning [].
ProviderResults(provider) ==
  IF provider \in {"polygon", "finnhub"} THEN Batches(provider) ELSE {<<>>}

\* config.keywords.should_exclude(headline)
should_exclude(it) == it.excl

\* config.keywords.categorize_news_by_age(headline, age_hours): the category
\* by the age alone, whatever the headline of the item is.
categorize_news_by_age(it, age) ==
  IF age <= BreakingMaxAge THEN "breaking"
  ELSE IF age <= GeneralMaxAge THEN "general"
  ELSE "old"

\* age_hours = (datetime.now(tz) - timestamp).total_seconds() / 3600
AgeOf(it, now) == now - it.timestamp

\* The record written: {**item, 'age_hours': ..., 'category': ...}
NewsRecord(it, age, category) ==
  [news_id |-> it.news_id, symbol |-> it.symbol, timestamp |-> it.timestamp,
   provider |-> it.provider, age_hours |-> age, category |-> category]

\* Lines 276-296: the document an item of this category is saved to.
TargetDoc(category) ==
  IF category = "breaking" THEN "bk"
  ELSE IF category = "general" THEN "gen"
  ELSE "none"

\* History counters saturate at 2.
Bump(n) == IF n < 2 THEN n + 1 ELSE n

\* _rotate_provider
rotate_provider(idx) == (idx + 1) % Len(secondary_providers)

IndexAfterCycle_RotateAlways(idx, items) == rotate_provider(idx)

IndexAfterCycle_ResetOnSuccess(idx, items) ==
  IF items # <<>> THEN 0 ELSE rotate_provider(idx)

\* The index after a cycle that fetched these items (lines 110-117).
IndexAfterCycle(idx, items) ==
  IF items # <<>> THEN idx ELSE rotate_provider(idx)

\* An activity takes up the next item of its batch, or has none left.
TakeNext(a, items) ==
  /\ n_queue' = [n_queue EXCEPT ![a] = IF items = <<>> THEN <<>> ELSE Tail(items)]
  /\ n_item' = [n_item EXCEPT ![a] = IF items = <<>> THEN NoItem ELSE Head(items)]
  /\ n_pc' = [n_pc EXCEPT ![a] = IF items = <<>> THEN "idle" ELSE "check"]

\* _process_news_item returns for the activity's item.
Return(a) ==
  /\ TakeNext(a, n_queue[a])
  /\ n_local' = [n_local EXCEPT ![a] = NoLocal]

\* _run_primary up to its blocking run(): the stream is created and
\* subscribed to all news.
PrimaryStart ==
  /\ n_stream = "none"
  /\ n_stream' = "running"
  /\ UNCHANGED <<vault_bk, vault_gen, n_seen, n_idx, n_clock, n_pc, n_item,
                 n_queue, n_local, n_classified, n_log, n_unsaved>>
  /\ UNCHANGED otherNews

\* The push connection closes or fails: run() returns or raises, the except
\* clause logs it and _run_primary ends.
PrimaryLost ==
  /\ n_stream = "running"
  /\ n_pc["primary"] = "idle"
  /\ n_stream' = "ended"
  /\ UNCHANGED <<vault_bk, vault_gen, n_seen, n_idx, n_clock, n_pc, n_item,
                 n_queue, n_local, n_classified, n_log, n_unsaved>>
  /\ UNCHANGED otherNews

\* The primary stream pushes an item: news_handler -> _handle_alpaca_news.
PrimaryPush ==
  /\ n_stream = "running"
  /\ n_pc["primary"] = "idle"
  /\ \E it \in NewsItems("alpaca") : TakeNext("primary", <<it>>)
  /\ UNCHANGED <<vault_bk, vault_gen, n_seen, n_idx, n_clock, n_local,
                 n_classified, n_log>>
  /\ UNCHANGED <<n_stream, n_unsaved>>
  /\ UNCHANGED otherNews

\* _run_secondary: one cycle up to the processing of its items: fetch from
\* the current provider; rotate if it returned nothing.
SecondaryFetch ==
  /\ n_pc["secondary"] = "idle"
  /\ LET provider == secondary_providers[n_idx + 1]
     IN \E items \in ProviderResults(provider) :
          /\ TakeNext("secondary", items)
          /\ n_idx' = IndexAfterCycle(n_idx, items)
          /\ n_log' = [provider |-> provider,
                       got |-> IF items = <<>> THEN "nothing" ELSE "items",
                       empties |-> IF n_log.got = "nothing"
                                   THEN Bump(n_log.empties) ELSE 0]
  /\ UNCHANGED <<vault_bk, vault_gen, n_seen, n_clock, n_local, n_classified>>
  /\ UNCHANGED <<n_stream, n_unsaved>>
  /\ UNCHANGED otherNews

\* force_refresh: the Finnhub fetch and the start of its loop.
ForceRefresh ==
  /\ n_pc["force"] = "idle"
  /\ \E items \in ProviderResults("finnhub") :
       /\ items # <<>>
       /\ TakeNext("force", items)
  /\ UNCHANGED <<vault_bk, vault_gen, n_seen, n_idx, n_clock, n_local,
                 n_classified, n_log>>
  /\ UNCHANGED <<n_stream, n_unsaved>>
  /\ UNCHANGED otherNews

\* Line 258: if news_id in self.seen_news_ids: return
ProcCheck(a) ==
  /\ n_pc[a] = "check"
  /\ IF n_item[a].news_id \in n_seen
     THEN Return(a)
     ELSE /\ n_pc' = [n_pc EXCEPT ![a] = "classify"]
          /\ UNCHANGED <<n_item, n_queue, n_local>>
  /\ UNCHANGED <<vault_bk, vault_gen, n_seen, n_idx, n_clock, n_classified, n_log>>
  /\ UNCHANGED <<n_stream, n_unsaved>>
  /\ UNCHANGED otherNews

\* Lines 261-274: add the id to the seen set, apply the exclusion rule,
\* compute the age and the category; an item of neither category is done.
ProcClassify(a) ==
  /\ n_pc[a] = "classify"
  /\ n_seen' = n_seen \cup {n_item[a].news_id}
  /\ IF should_exclude(n_item[a])
     THEN Return(a) /\ UNCHANGED n_classified
     ELSE LET age == AgeOf(n_item[a], n_clock)
              category == categorize_news_by_age(n_item[a], age)
          IN /\ n_classified' = [n_classified EXCEPT ![n_item[a].news_id] = Bump(@)]
             /\ IF TargetDoc(category) = "none"
                THEN Return(a)
                ELSE /\ n_pc' = [n_pc EXCEPT ![a] = "load"]
                     /\ n_local' = [n_local EXCEPT ![a] =
                                      [age_hours |-> age, category |-> category,
                                       loaded |-> EmptyDoc]]
                     /\ UNCHANGED <<n_item, n_queue>>
  /\ UNCHANGED <<vault_bk, vault_gen, n_idx, n_clock, n_log>>
  /\ UNCHANGED <<n_stream, n_unsaved>>
  /\ UNCHANGED otherNews

\* Lines 278 / 289: bkgnews = self.fm.load_bkgnews() / news = self.fm.load_news()
ProcLoad(a) ==
  /\ n_pc[a] = "load"
  /\ n_local' = [n_local EXCEPT ![a].loaded =
                   IF TargetDoc(n_local[a].category) = "bk" THEN vault_bk
                   ELSE vault_gen]
  /\ n_pc' = [n_pc EXCEPT ![a] = "save"]
  /\ UNCHANGED <<vault_bk, vault_gen, n_seen, n_idx, n_clock, n_item, n_queue,
                 n_classified, n_log>>
  /\ UNCHANGED <<n_stream, n_unsaved>>
  /\ UNCHANGED otherNews

\* Lines 279-284 / 290-295: add the record to the loaded mapping and save it.
ProcSave(a) ==
  /\ n_pc[a] = "save"
  /\ LET doc == TargetDoc(n_local[a].category)
         rec == NewsRecord(n_item[a], n_local[a].age_hours,
                           IF doc = "bk" THEN "breaking" ELSE "general")
         new == Put(n_local[a].loaded, n_item[a].news_id, rec)
     IN /\ vault_bk' = IF doc = "bk" THEN new ELSE vault_bk
        /\ vault_gen' = IF doc = "gen" THEN new ELSE vault_gen
        /\ Return(a)
  /\ UNCHANGED <<n_seen, n_idx, n_clock, n_classified, n_log>>
  /\ UNCHANGED <<n_stream, n_unsaved>>
  /\ UNCHANGED otherNews

\* Lines 279-284 / 290-295 when the vault write fails: the document stays as
\* it is, the failure ends _process_news_item (its except clause logs it) and
\* the activity goes on with its next item.
ProcSaveFails(a) ==
  /\ n_pc[a] = "save"
  /\ LET doc == TargetDoc(n_local[a].category)
     IN n_unsaved' = [n_unsaved EXCEPT ![doc] = @ \cup {n_item[a].news_id}]
  /\ Return(a)
  /\ UNCHANGED <<vault_bk, vault_gen, n_seen, n_idx, n_clock, n_classified,
                 n_log, n_stream>>
  /\ UNCHANGED otherNews

\* A minute passes.
NewsTick ==
  /\ n_clock < StartClock + MaxTicks
  /\ n_clock' = n_clock + 1
  /\ UNCHANGED <<vault_bk, vault_gen, n_seen, n_idx, n_pc, n_item, n_queue,
                 n_local, n_classified, n_log>>
  /\ UNCHANGED <<n_stream, n_unsaved>>
  /\ UNCHANGED otherNews

(***************************************************************************)
(* News Collector claims                                                   *)
(***************************************************************************)

Persisted(id) == (id \in DOMAIN vault_bk) \/ (id \in DOMAIN vault_gen)

\* C1: an item id delivered more than once, by whatever interleaving of the
\* push handler, the secondary rotation and force_refresh, passes through
\* classification and persistence at most once, and the Breaking News and
\* General News documents never hold two records for it.
C1_ProcessedAtMostOnce ==
  \A id \in NewsIds :
    /\ n_classified[id] <= 1
    /\ ~(id \in DOMAIN vault_bk /\ id \in DOMAIN vault_gen)

\* C11: after the primary push connection has closed or failed (no stop is
\* signalled in these behaviours), the News Collector has a running push
\* subscription again.
C11_PrimaryResubscribes == (n_stream = "ended") ~> (n_stream = "running")

\* C7: a secondary cycle whose provider returned nothing moves the rotation
\* index on by exactly one position; a cycle whose provider returned items
\* leaves it where it is; nothing else moves the index.
C7_RotateOnEmptyOnly ==
  /\ [][SecondaryFetch =>
          /\ n_log'.provider = secondary_providers[n_idx + 1]
          /\ n_log'.got = "nothing" => n_idx' = (n_idx + 1) % 6
          /\ n_log'.got = "items" => n_idx' = n_idx]_vars
  /\ [][~SecondaryFetch => n_idx' = n_idx]_vars

\* Three cycles in a row fetched from newsapi, alphavantage (both nothing) and
\* finnhub, whose item is persisted; the index stays at finnhub.
C7_Witness ==
  /\ n_log = [provider |-> "finnhub", got |-> "items", empties |-> 2]
  /\ secondary_providers[n_idx + 1] = "finnhub"
  /\ n_pc["secondary"] = "idle"
  /\ \E id \in DOMAIN vault_bk : vault_bk[id].provider = "finnhub"

\* C8: an item that passed deduplication and the exclusion rule is saved to
\* the Breaking News document iff its age is <= 2 h, to the General News
\* document iff its age is > 2 h and <= 72 h, and to neither (without an
\* error: the activity just goes on) if it is older: the documents hold
\* only records of their age band, an item of at most 72 h goes on to the
\* load and the save, and when _process_news_item leaves the save the item
\* is in the document of its band.
C8_CategoryByAge ==
  /\ [](\A id \in DOMAIN vault_bk :
          vault_bk[id].age_hours <= 120 /\ vault_bk[id].category = "breaking")
  /\ [](\A id \in DOMAIN vault_gen :
          /\ vault_gen[id].age_hours > 120
          /\ vault_gen[id].age_hours <= 4320
          /\ vault_gen[id].category = "general")
  /\ [][\A a \in Activities :
          (n_pc[a] = "classify" /\ n_pc'[a] # "classify" /\ ~n_item[a].excl) =>
            LET age == n_clock - n_item[a].timestamp
            IN /\ age <= 4320 =>
                    n_pc'[a] = "load" /\ n_local'[a].age_hours = age
               /\ age > 4320 =>
                    /\ n_pc'[a] \in {"idle", "check"}
                    /\ vault_bk' = vault_bk /\ vault_gen' = vault_gen]_vars
  /\ [][\A a \in Activities :
          (n_pc[a] = "save" /\ n_pc'[a] # "save") =>
            LET age == n_local[a].age_hours
                id == n_item[a].news_id
            IN /\ age <= 120 =>
                    /\ id \in DOMAIN vault_bk'
                    /\ vault_bk'[id].age_hours = age
                    /\ vault_gen' = vault_gen
               /\ age > 120 =>
                    /\ id \in DOMAIN vault_gen'
                    /\ vault_gen'[id].age_hours = age
                    /\ vault_bk' = vault_bk]_vars

\* C26: a successful write of a news document contains every record whose
\* earlier write to that document failed.
C26_FailedWriteNotLost ==
  [][\A a \in Activities :
       ProcSave(a) =>
         /\ TargetDoc(n_local[a].category) = "bk"
              => n_unsaved.bk \subseteq DOMAIN vault_bk'
         /\ TargetDoc(n_local[a].category) = "gen"
              => n_unsaved.gen \subseteq DOMAIN vault_gen']_vars

\* C27: every write of a news document keeps what the document held: an
\* item once persisted is still there after any later step of any activity.
C27_NoLostUpdate ==
  [][/\ DOMAIN vault_bk \subseteq DOMAIN vault_bk'
     /\ DOMAIN vault_gen \subseteq DOMAIN vault_gen']_vars

InitNews ==
  /\ vault_bk = EmptyDoc
  /\ vault_gen = EmptyDoc
  /\ n_seen = {}
  /\ n_idx = 0
  /\ n_clock = StartClock
  /\ n_pc = [a \in Activities |-> "idle"]
  /\ n_item = [a \in Activities |-> NoItem]
  /\ n_queue = [a \in Activities |-> <<>>]
  /\ n_local = [a \in Activities |-> NoLocal]
  /\ n_classified = [i \in NewsIds |-> 0]
  /\ n_log = [provider |-> "", got |-> "", empties |-> 0]
  /\ n_stream = "none"
  /\ n_unsaved = [bk |-> {}, gen |-> {}]

\* One step of _process_news_item by activity a while the vault takes every
\* write.
ProcessWritten(a) ==
  ProcCheck(a) \/ ProcClassify(a) \/ ProcLoad(a) \/ ProcSave(a)

\* One step of _process_news_item by activity a; its save is written or
\* fails.
Process(a) == ProcessWritten(a) \/ ProcSaveFails(a)

\* The two activities start() runs, without the GUI's force_refresh; a
\* vault write can fail.
NextNewsLoops ==
  \/ PrimaryStart
  \/ PrimaryLost
  \/ PrimaryPush
  \/ SecondaryFetch
  \/ \E a \in {"primary", "secondary"} : Process(a)
  \/ NewsTick

\* The three activities (the two loops and the GUI's force_refresh) in the
\* runs where the vault takes every write.
NextNews ==
  \/ PrimaryStart
  \/ PrimaryLost
  \/ PrimaryPush
  \/ SecondaryFetch
  \/ ForceRefresh
  \/ \E a \in Activities : ProcessWritten(a)
  \/ NewsTick

(***************************************************************************)
(* The market clock                                                        *)
(***************************************************************************)

\* Instants the market clock may advance in a run.
MaxMktTicks == 1

MktTick ==
  /\ mkt_now < MaxMktTicks
  /\ mkt_now' = mkt_now + 1
  /\ UNCHANGED otherClock

(***************************************************************************)
(* Tier-2 validator                                                        *)
(***************************************************************************)

\* A quote as the stream or the REST backfill delivers it: prices in cents,
\* None for a field the feed left out.
Quote(bid, ask, bsz, asz) ==
  [bid_price |-> bid, ask_price |-> ask, bid_size |-> bsz, ask_size |-> asz]

QuoteSamples == {Quote(498, 502, 3, 4), Quote(None, 504, None, 4)}

\* A trade as the stream delivers it, with the exchange's timestamp.
Trade(price, size, ts) == [price |-> price, size |-> size, timestamp |-> ts]

TradeSamples == {Trade(500, 100, 0)}

\* x if x else 0
OrZero(x) == IF Truthy(x) THEN x ELSE 0

\* What the REST latest-quote query yields for a symbol: a quote, or nothing
\* (the symbol is not in the answer, or the query raised).
BackfillResults == {Quote(497, 503, 1, 1), Quote(None, None, None, None)}

NoQuote == Quote(None, None, None, None)

\* The elements of a set as one list.
RECURSIVE SetToSeq(_)
SetToSeq(S) ==
  IF S = {} THEN <<>>
  ELSE LET x == CHOOSE y \in S : TRUE IN <<x>> \o SetToSeq(S \ {x})

\* The orders in which iterating a Python set of strings may yield its
\* elements (the order follows the process's hash seed): every order.
Orders(S) == {q \in UniqueSeqs(S) : Len(q) = Cardinality(S)}

\* How a pair of subscribe calls can end: both return, subscribe_quotes
\* raises, or subscribe_trades raises after subscribe_quotes returned.
SubscribeOutcomes == {"ok", "quotes_raise", "trades_raise"}

\* The stream object's subscription calls after subscribe_quotes(h, *symbols)
\* and subscribe_trades(h, *symbols) ending as outcome.
Subscribed(subs, symbols, outcome) ==
  [s \in Symbols |->
     [quotes |-> IF s \in symbols /\ outcome # "quotes_raise"
                 THEN Bump(subs[s].quotes) ELSE subs[s].quotes,
      trades |-> IF s \in symbols /\ outcome = "ok"
                 THEN Bump(subs[s].trades) ELSE subs[s].trades]]

\* A stream object no subscribe call was made on.
NoSubs == [s \in Symbols |-> [quotes |-> 0, trades |-> 0]]

subscribed_symbols_update_Assign(subscribed, symbols) == symbols

\* self.subscribed_symbols.update(symbols), self.subscribed_symbols.add(symbol)
subscribed_symbols_update(subscribed, symbols) == subscribed \cup symbols

\* _save_validated_data: the document after it. An empty map is not written;
\* an exception of list(...) or of save_validated is logged and the document
\* stays.
save_validated_data(doc, data, outcome) ==
  IF outcome = "ok" /\ DictValues(data) # <<>> THEN DictValues(data) ELSE doc

\* The entry of a symbol: its fields, {} when none was merged yet.
Entry(data, symbol) == DictGet(data, symbol)

\* self.validated_data[symbol] = {}
CreateEntry(data, symbol) == DictSet(data, symbol, <<>>)

\* self.validated_data[symbol].update(fields)
MergeEntry(data, symbol, fields) ==
  DictSet(data, symbol, Merge(Entry(data, symbol), fields))

\* The fields _fetch_missing_data merges (lines 196-202).
BackfillFields(symbol, q) ==
  [symbol |-> symbol,
   bid |-> OrZero(q.bid_price), ask |-> OrZero(q.ask_price),
   bid_size |-> OrZero(q.bid_size), ask_size |-> OrZero(q.ask_size)]

\* The fields _handle_quote merges (lines 154-161).
QuoteTickFields(symbol, q, now) ==
  [symbol |-> symbol,
   bid |-> OrZero(q.bid_price), ask |-> OrZero(q.ask_price),
   bid_size |-> OrZero(q.bid_size), ask_size |-> OrZero(q.ask_size),
   last_update |-> now]

\* The fields _handle_trade merges (lines 174-178).
TradeTickFields(t) ==
  [price |-> t.price, volume |-> t.size, timestamp |-> t.timestamp]

\* The polling thread's locals outside a cycle, and the stream's thread
\* between two handlers.
NoPoll == [prefilter |-> <<>>, init |-> FALSE, todo |-> <<>>, answer |-> NoQuote]

NoCb == [pc |-> "idle", symbol |-> "", kind |-> "", quote |-> NoQuote,
         trade |-> Trade(0, 0, 0)]

\* Quotes and trades the stream delivers in a run.
MaxDeliveries == 2

\* What a run has done so far: backfill queries per symbol, the stream's
\* deliveries, and the symbols a stream tick (a quote tick) was merged for.
NoHist == [queries |-> [s \in Symbols |-> 0], delivered |-> 0, ticked |-> {},
           quoted |-> {}]

(***************************************************************************)
(* The polling thread (_run_loop), statement by statement. Between any two *)
(* of its steps Tier-1 may replace the Prefiltered Set, stop() may run,    *)
(* and the stream's thread may run its handlers.                           *)
(***************************************************************************)

\* _run_loop, loop test with the stop event clear: the thread enters the
\* loop body, which takes no further look at the event.
T2Enter ==
  /\ t2_pc = "head"
  /\ ~t2_stop
  /\ t2_pc' = "cycle"
  /\ UNCHANGED <<vault_validated, t2_stream, t2_subs, t2_subscribed,
                 t2_validated, t2_stop, mkt_now>>
  /\ UNCHANGED otherT2

\* Lines 62-69: the Prefiltered Set is loaded into the local prefilter and
\* the branch is taken on it and on self.stream. What Tier-1 writes after
\* this step this cycle does not see.
T2Load ==
  /\ t2_pc = "cycle"
  /\ t2_poll' = [prefilter |-> vault_prefilter, init |-> FALSE, todo |-> <<>>,
                 answer |-> NoQuote]
  /\ t2_pc' = IF vault_prefilter = <<>> THEN "save"
              ELSE IF t2_stream = "none" THEN "init" ELSE "update"
  /\ UNCHANGED <<vault_validated, t2_stream, t2_subs, t2_subscribed,
                 t2_validated, t2_stop, t2_cb, t2_hist>>
  /\ UNCHANGED otherRace

\* _init_websocket, lines 86-101: a new stream object, the two subscribe
\* calls, and the symbols recorded as subscribed; an exception of a
\* subscribe call is logged and ends the method with what was done.
T2Init ==
  /\ t2_pc = "init"
  /\ \E outcome \in SubscribeOutcomes :
       /\ t2_stream' = "created"
       /\ t2_subs' = Subscribed(NoSubs, Elems(t2_poll.prefilter), outcome)
       /\ IF outcome = "ok"
          THEN /\ t2_subscribed' =
                    subscribed_symbols_update(t2_subscribed,
                                              Elems(t2_poll.prefilter))
               /\ t2_poll' = [t2_poll EXCEPT !.init = TRUE,
                                             !.todo = t2_poll.prefilter]
               /\ t2_pc' = "query"
          ELSE /\ t2_pc' = "save"
               /\ UNCHANGED <<t2_subscribed, t2_poll>>
  /\ UNCHANGED <<vault_validated, t2_validated, t2_stop, t2_cb, t2_hist>>
  /\ UNCHANGED otherRace

\* _update_subscriptions up to the end of its two subscribe calls (lines
\* 118-133): nothing to do without new symbols; with an exception of a
\* subscribe call no symbol is backfilled or recorded.
PollSubscribe ==
  /\ t2_pc = "update"
  /\ LET new_symbols == Elems(t2_poll.prefilter) \ t2_subscribed
     IN IF new_symbols = {}
        THEN /\ t2_pc' = "save"
             /\ UNCHANGED <<t2_subs, t2_poll>>
        ELSE \E outcome \in SubscribeOutcomes :
               /\ t2_subs' = Subscribed(t2_subs, new_symbols, outcome)
               /\ IF outcome = "ok"
                  THEN /\ \E order \in Orders(new_symbols) :
                            t2_poll' = [t2_poll EXCEPT !.todo = order]
                       /\ t2_pc' = "query"
                  ELSE /\ t2_pc' = "save"
                       /\ UNCHANGED t2_poll
  /\ UNCHANGED <<vault_validated, t2_stream, t2_subscribed, t2_validated,
                 t2_stop, t2_cb, t2_hist>>
  /\ UNCHANGED otherRace

\* for symbol in symbols / new_symbols: after _fetch_missing_data the symbol
\* is recorded (line 138; in _init_websocket it already was), and the loop
\* goes on to its next symbol or ends: _init_websocket then starts the
\* stream's thread, _update_subscriptions returns.
PollNext ==
  /\ t2_subscribed' = subscribed_symbols_update(t2_subscribed,
                                                {Head(t2_poll.todo)})
  /\ t2_poll' = [t2_poll EXCEPT !.todo = Tail(t2_poll.todo),
                                !.answer = NoQuote]
  /\ t2_pc' = IF Tail(t2_poll.todo) # <<>> THEN "query"
              ELSE IF t2_poll.init THEN "start" ELSE "save"

\* _fetch_missing_data, lines 185-190: the pull query and its answer; with
\* no quote for the symbol in it the method is over.
PollQuery ==
  /\ t2_pc = "query"
  /\ LET symbol == Head(t2_poll.todo)
     IN /\ t2_hist' = [t2_hist EXCEPT !.queries[symbol] = @ + 1]
        /\ \E q \in BackfillResults :
             IF q = NoQuote
             THEN PollNext
             ELSE /\ t2_poll' = [t2_poll EXCEPT !.answer = q]
                  /\ t2_pc' = "check"
                  /\ UNCHANGED t2_subscribed
  /\ UNCHANGED <<vault_validated, t2_stream, t2_subs, t2_validated, t2_stop,
                 t2_cb>>
  /\ UNCHANGED otherRace

\* Line 193: if symbol not in self.validated_data
PollCheck ==
  /\ t2_pc = "check"
  /\ t2_pc' = IF DictHas(t2_validated, Head(t2_poll.todo)) THEN "merge"
              ELSE "create"
  /\ UNCHANGED <<vault_validated, t2_stream, t2_subs, t2_subscribed,
                 t2_validated, t2_stop, racevars>>
  /\ UNCHANGED otherRace

\* Line 194: self.validated_data[symbol] = {}
PollCreate ==
  /\ t2_pc = "create"
  /\ t2_validated' = CreateEntry(t2_validated, Head(t2_poll.todo))
  /\ t2_pc' = "merge"
  /\ UNCHANGED <<vault_validated, t2_stream, t2_subs, t2_subscribed, t2_stop,
                 racevars>>
  /\ UNCHANGED otherRace

\* Lines 196-202: the answer is merged.
PollMerge ==
  /\ t2_pc = "merge"
  /\ LET symbol == Head(t2_poll.todo)
     IN t2_validated' = MergeEntry(t2_validated, symbol,
                                   BackfillFields(symbol, t2_poll.answer))
  /\ PollNext
  /\ UNCHANGED <<vault_validated, t2_stream, t2_subs, t2_stop, t2_cb, t2_hist>>
  /\ UNCHANGED otherRace

\* _init_websocket, lines 108-109: the stream's thread is started and runs
\* stream.run(), or the start raises and the stream stays as it was. stop()
\* may have closed the stream object meanwhile.
T2StartStream ==
  /\ t2_pc = "start"
  /\ \E started \in BOOLEAN :
       t2_stream' = IF started THEN "running" ELSE t2_stream
  /\ t2_pc' = "save"
  /\ UNCHANGED <<vault_validated, t2_subs, t2_subscribed, t2_validated,
                 t2_stop, racevars>>
  /\ UNCHANGED otherRace

\* _save_validated_data and the start of time.sleep(10).
PollSave ==
  /\ t2_pc = "save"
  /\ \E outcome \in SaveOutcomes :
       vault_validated' = save_validated_data(vault_validated, t2_validated,
                                              outcome)
  /\ t2_poll' = NoPoll
  /\ t2_pc' = "sleep"
  /\ UNCHANGED <<t2_stream, t2_subs, t2_subscribed, t2_validated, t2_stop,
                 t2_cb, t2_hist>>
  /\ UNCHANGED otherRace

\* One step of a scheduling tick of _run_loop, past the loop test, up to its
\* sleep.
T2Tick ==
  \/ T2Load
  \/ T2Init
  \/ PollSubscribe
  \/ PollQuery
  \/ PollCheck
  \/ PollCreate
  \/ PollMerge
  \/ T2StartStream
  \/ PollSave

\* time.sleep(10) returns.
T2Wake ==
  /\ t2_pc = "sleep"
  /\ t2_pc' = "head"
  /\ UNCHANGED <<vault_validated, t2_stream, t2_subs, t2_subscribed,
                 t2_validated, t2_stop, mkt_now>>
  /\ UNCHANGED otherT2

\* Loop head with the stop event set: the thread ends.
T2Exit ==
  /\ t2_pc = "head"
  /\ t2_stop
  /\ t2_pc' = "done"
  /\ UNCHANGED <<vault_validated, t2_stream, t2_subs, t2_subscribed,
                 t2_validated, t2_stop, mkt_now>>
  /\ UNCHANGED otherT2

\* stop(): sets the event and closes the stream it finds.
T2Stop ==
  /\ ~t2_stop
  /\ t2_stop' = TRUE
  /\ t2_stream' = IF t2_stream = "none" THEN "none" ELSE "closed"
  /\ UNCHANGED <<vault_validated, t2_subs, t2_subscribed, t2_validated, t2_pc,
                 mkt_now>>
  /\ UNCHANGED otherT2

\* The streaming connection is lost: stream.run() ends in its thread.
T2StreamLost ==
  /\ t2_stream = "running"
  /\ t2_stream' = "lost"
  /\ UNCHANGED <<vault_validated, t2_subs, t2_subscribed, t2_validated, t2_pc,
                 t2_stop, mkt_now>>
  /\ UNCHANGED otherT2

\* The process has ended and the program is run again: a new AlpacaValidator
\* is constructed and started; the vault documents are as the last run left
\* them.
T2Restart ==
  /\ t2_pc = "done"
  /\ t2_stream' = "none"
  /\ t2_subs' = NoSubs
  /\ t2_subscribed' = {}
  /\ t2_validated' = <<>>
  /\ t2_pc' = "head"
  /\ t2_stop' = FALSE
  /\ t2_poll' = NoPoll
  /\ t2_cb' = NoCb
  /\ t2_hist' = NoHist
  /\ UNCHANGED <<vault_validated, mkt_now>>
  /\ UNCHANGED <<t1vars, haltvars, newsvars, t3connvars, t3tickvars,
                 enrichvars, loopvars, scanvars>>

\* The Prefiltered Set as Tier-1 may have left it.
T2PrefilterReplaced ==
  /\ \E q \in UniqueSeqs(Symbols) : q # vault_prefilter /\ vault_prefilter' = q
  /\ UNCHANGED <<registry, t1_pc, t1_stop, t1_last>>
  /\ UNCHANGED <<haltvars, newsvars, mkt_now, t2vars, t3connvars, t3tickvars, latevars>>

(***************************************************************************)
(* The stream's thread. A handler's check (symbol not in                   *)
(* self.validated_data), create (self.validated_data[symbol] = {}) and     *)
(* merge (self.validated_data[symbol].update(...)) are steps of their own, *)
(* which the interpreter may interleave with the polling thread's.         *)
(***************************************************************************)

\* The stream's thread takes a quote or a trade for a symbol it was asked
\* for and enters the handler (one handler at a time: they are coroutines of
\* one event loop and do not await).
CbArrive ==
  /\ t2_stream = "running"
  /\ t2_cb.pc = "idle"
  /\ t2_hist.delivered < MaxDeliveries
  /\ t2_hist' = [t2_hist EXCEPT !.delivered = @ + 1]
  /\ \E symbol \in Symbols :
       \/ /\ t2_subs[symbol].quotes > 0
          /\ \E q \in QuoteSamples :
               t2_cb' = [pc |-> "check", symbol |-> symbol, kind |-> "quote",
                         quote |-> q, trade |-> Trade(0, 0, 0)]
       \/ /\ t2_subs[symbol].trades > 0
          /\ \E t \in TradeSamples :
               t2_cb' = [pc |-> "check", symbol |-> symbol, kind |-> "trade",
                         quote |-> NoQuote, trade |-> t]
  /\ UNCHANGED <<t2vars, t2_poll>>
  /\ UNCHANGED otherRace

\* Lines 151 / 171: if symbol not in self.validated_data
CbCheck ==
  /\ t2_cb.pc = "check"
  /\ t2_cb' = [t2_cb EXCEPT !.pc = IF DictHas(t2_validated, t2_cb.symbol)
                                   THEN "merge" ELSE "create"]
  /\ UNCHANGED <<t2vars, t2_poll, t2_hist>>
  /\ UNCHANGED otherRace

\* Lines 152 / 172: self.validated_data[symbol] = {}
CbCreate ==
  /\ t2_cb.pc = "create"
  /\ t2_validated' = CreateEntry(t2_validated, t2_cb.symbol)
  /\ t2_cb' = [t2_cb EXCEPT !.pc = "merge"]
  /\ UNCHANGED <<vault_validated, t2_stream, t2_subs, t2_subscribed, t2_pc,
                 t2_stop, t2_poll, t2_hist>>
  /\ UNCHANGED otherRace

\* Lines 154-161 / 174-178: the tick's fields are merged.
CbMerge ==
  /\ t2_cb.pc = "merge"
  /\ t2_validated' =
       MergeEntry(t2_validated, t2_cb.symbol,
                  IF t2_cb.kind = "quote"
                  THEN QuoteTickFields(t2_cb.symbol, t2_cb.quote, mkt_now)
                  ELSE TradeTickFields(t2_cb.trade))
  /\ t2_hist' = [t2_hist EXCEPT
                   !.ticked = @ \cup {t2_cb.symbol},
                   !.quoted = IF t2_cb.kind = "quote"
                              THEN @ \cup {t2_cb.symbol} ELSE @]
  /\ t2_cb' = NoCb
  /\ UNCHANGED <<vault_validated, t2_stream, t2_subs, t2_subscribed, t2_pc,
                 t2_stop, t2_poll>>
  /\ UNCHANGED otherRace

\* One step of a handler run by the stream's thread.
T2Handler ==
  \/ CbArrive
  \/ CbCheck
  \/ CbCreate
  \/ CbMerge

(***************************************************************************)
(* Tier-2 claims                                                           *)
(***************************************************************************)

\* C14: no step of Tier-2 removes a symbol from the subscribed set, whatever
\* the Prefiltered Set has become and whichever subscribe call failed.
C14_SubscribedOnlyGrows == [][t2_subscribed \subseteq t2_subscribed']_vars

\* A tick has subscribed BBB, at the second attempt, from a Prefiltered Set
\* that AAA has left; AAA is still subscribed.
C14_Witness ==
  /\ t2_pc = "sleep"
  /\ vault_prefilter = <<"BBB">>
  /\ t2_subscribed = {"AAA", "BBB"}
  /\ t2_subs["BBB"].quotes = 2

\* C15: over the whole run no symbol is named in more than one quote
\* subscription and in more than one trade subscription of the stream,
\* whatever subscribe calls failed earlier.
C15_SubscribedOnce ==
  \A s \in Symbols : t2_subs[s].quotes <= 1 /\ t2_subs[s].trades <= 1

\* C16: at the end of every Tier-2 scheduling tick the Validated Snapshot
\* document is the list of all snapshots of the in-memory map, whatever the
\* map contains.
C16_DocumentEqualsMap ==
  [][PollSave => vault_validated' = DictValues(t2_validated')]_vars

\* C10: after the Tier-2 streaming connection is lost (and no stop is
\* signalled), Tier-2 eventually has a running connection again on which
\* every subscribed symbol is subscribed once.
C10_ReconnectsAfterLoss ==
  (t2_stream = "lost")
    ~> (t2_stop \/ (/\ t2_stream = "running"
                    /\ \A s \in t2_subscribed :
                         t2_subs[s] = [quotes |-> 1, trades |-> 1]))

QuoteFields == {"symbol", "bid", "ask", "bid_size", "ask_size", "last_update"}

TradeFields == {"price", "volume", "timestamp"}

\* The snapshot map after differs from the one before in symbol s only, and
\* there only in the given fields: every other field the snapshot had is
\* still there with its value.
OnlyFieldsOf(before, after, s, fields) ==
  /\ \A x \in Symbols \ {s} :
       /\ DictHas(after, x) <=> DictHas(before, x)
       /\ DictHas(before, x) => DictGet(after, x) = DictGet(before, x)
  /\ DictHas(after, s)
  /\ DictHas(before, s) =>
       LET old == DictGet(before, s)
           new == DictGet(after, s)
       IN /\ DOMAIN new = (DOMAIN old) \cup fields
          /\ \A f \in (DOMAIN old) \ fields : new[f] = old[f]
  /\ ~DictHas(before, s) => DOMAIN DictGet(after, s) = fields

\* C30: a quote tick changes, in the snapshot of one symbol, only symbol,
\* bid, ask, bid_size, ask_size and last_update; a trade tick only price,
\* volume and timestamp; the snapshot's other fields keep their values, no
\* other symbol's snapshot changes, and a snapshot that existed is never
\* replaced by the tick's fields alone. Of the handler's two writes, the
\* creation of {} changes no field of a snapshot that exists, and the merge
\* changes the tick's fields only.
C30_TicksMergeTheirFields ==
  /\ [][CbCreate =>
          OnlyFieldsOf(t2_validated, t2_validated', t2_cb.symbol, {})]_vars
  /\ [][CbMerge =>
          OnlyFieldsOf(t2_validated, t2_validated', t2_cb.symbol,
                       IF t2_cb.kind = "quote" THEN QuoteFields
                       ELSE TradeFields)]_vars

\* C35: a stream object Tier-2 holds has had its consumer started: no
\* failure inside _init_websocket leaves a stream that was created and never
\* run, for later ticks to subscribe on. (Inside _init_websocket the stream
\* is created first and started last.)
C35_HeldStreamWasStarted ==
  t2_stream = "created" =>
    (t2_poll.init /\ t2_pc \in {"query", "check", "create", "merge", "start"})

\* C28: the backfill query for a symbol is issued at most once, and when its
\* answer is merged no stream tick for the symbol has been merged yet; in
\* particular the merge never writes over bid and ask of a stream quote
\* tick.
C28_BackfillBeforeTicks ==
  /\ [](\A s \in Symbols : t2_hist.queries[s] <= 1)
  /\ [][PollMerge => Head(t2_poll.todo) \notin t2_hist.ticked]_vars
  /\ [][PollMerge =>
          LET symbol == Head(t2_poll.todo)
          IN symbol \in t2_hist.quoted =>
               /\ Entry(t2_validated', symbol).bid = Entry(t2_validated, symbol).bid
               /\ Entry(t2_validated', symbol).ask = Entry(t2_validated, symbol).ask]_vars

\* C29: no step of either thread removes a symbol's entry or a field that
\* had been merged into it.
C29_NoFieldDropped ==
  [][\A s \in Symbols :
       DictHas(t2_validated, s) =>
         /\ DictHas(t2_validated', s)
         /\ DOMAIN Entry(t2_validated, s) \subseteq DOMAIN Entry(t2_validated', s)]_vars

InitTier2 ==
  /\ mkt_now = 0
  /\ vault_validated = <<>>
  /\ t2_stream = "none"
  /\ t2_subs = NoSubs
  /\ t2_subscribed = {}
  /\ t2_validated = <<>>
  /\ t2_pc = "head"
  /\ t2_stop = FALSE

InitRace ==
  /\ t2_poll = NoPoll
  /\ t2_cb = NoCb
  /\ t2_hist = NoHist

NextTier2 ==
  \/ T2Enter
  \/ T2Tick
  \/ T2Wake
  \/ T2Exit
  \/ T2Stop
  \/ T2Handler
  \/ T2StreamLost
  \/ T2PrefilterReplaced
  \/ MktTick

\* The polling thread, stop() and the loss of the stream's connection.
NextTier2Loss ==
  \/ T2Enter
  \/ T2Tick
  \/ T2Wake
  \/ T2Exit
  \/ T2Stop
  \/ T2StreamLost
  \/ T2PrefilterReplaced

\* The polling thread and stop(), with Tier-1 replacing the Prefiltered Set.
NextTier2Subs ==
  \/ T2Enter
  \/ T2Tick
  \/ T2Wake
  \/ T2Exit
  \/ T2Stop
  \/ T2PrefilterReplaced

\* The polling thread over several runs of the program.
NextTier2Runs ==
  \/ NextTier2Subs
  \/ T2Restart

\* The polling thread and the stream's thread, with Tier-1 replacing the
\* Prefiltered Set.
NextTier2Race ==
  \/ T2PrefilterReplaced
  \/ T2Enter
  \/ T2Tick
  \/ T2Wake
  \/ T2Handler

(***************************************************************************)
(* Tier-3 categorizer: connection and subscriptions                        *)
(***************************************************************************)

\* Connections the feed may drop in a run.
MaxDrops == 1

\* Tradier's per-request symbol limit (max_per_batch).
max_per_batch == 50

\* More ticker symbols than one subscribe message may carry.
ManyTickers ==
  {"AA", "AB", "AC", "AD", "AE", "AF", "AG", "AH", "AI", "AJ",
   "AK", "AL", "AM", "AN", "AO", "AP", "AQ", "AR", "AS", "AT",
   "AU", "AV", "AW", "AX", "AY", "AZ", "BA", "BB", "BC", "BD",
   "BE", "BF", "BG", "BH", "BI", "BJ", "BK", "BL", "BM", "BN",
   "BO", "BP", "BQ", "BR", "BS", "BT", "BU", "BV", "BW", "BX",
   "BY"}

\* Strings that are not ticker symbols: empty, too long, with a dot.
OddStrings == {"", "ABCDEF", "BRK.B"}

\* s.isalpha(): at least one character, letters only.
isalpha(s) == s \in Symbols \cup ManyTickers \cup {"ABCDEF"}

\* len(s)
StrLen(s) ==
  IF s = "" THEN 0
  ELSE IF s \in Symbols THEN 3
  ELSE IF s = "ABCDEF" THEN 6
  ELSE IF s = "BRK.B" THEN 5
  ELSE 2

\* s and s.isalpha() and 0 < len(s) <= 5: the ticker symbols pass; a news
\* id (two characters, one a digit) does not.
WellFormed(s) == s # "" /\ isalpha(s) /\ 0 < StrLen(s) /\ StrLen(s) <= 5

\* [s['symbol'] for s in validated if 'symbol' in s]
ValidatedSymbols(validated) ==
  {validated[i].symbol : i \in {j \in 1..Len(validated) : "symbol" \in DOMAIN validated[j]}}

BatchesOf_Whole(list, size) == IF list = <<>> THEN <<>> ELSE <<list>>

\* symbol_list[i:i+max_per_batch] for i in range(0, len, max_per_batch)
RECURSIVE BatchesOf(_, _)
BatchesOf(list, size) ==
  IF list = <<>> THEN <<>>
  ELSE IF Len(list) <= size THEN <<list>>
  ELSE <<SubSeq(list, 1, size)>> \o BatchesOf(SubSeq(list, size + 1, Len(list)), size)

\* The subsets of S that have k elements.
RECURSIVE KSubsets(_, _)
KSubsets(S, k) ==
  IF k = 0 THEN {{}}
  ELSE IF S = {} THEN {}
  ELSE LET x == CHOOSE y \in S : TRUE
       IN {T \cup {x} : T \in KSubsets(S \ {x}, k - 1)} \cup KSubsets(S \ {x}, k)

\* Orders of the well-formed strings W: one for every way slices of `size`
\* can divide W (any `size` of them first, and so on with the rest).
RECURSIVE SliceOrders(_, _)
SliceOrders(W, size) ==
  IF Cardinality(W) <= size THEN {SetToSeq(W)}
  ELSE UNION {{SetToSeq(W \ R) \o q : q \in SliceOrders(R, size)} :
                R \in KSubsets(W, Cardinality(W) - size)}

\* for s in new_symbols: the orders in which iterating the set may yield its
\* elements, taken up to what the subscribe messages can tell apart: which
\* symbols travel in which message. The order follows the process's hash
\* seed, so every division into slices can occur; the strings the filter
\* drops are put last (their place changes nothing).
IterationOrders(S, size) ==
  {q \o SetToSeq({x \in S : ~WellFormed(x)}) :
     q \in SliceOrders({x \in S : WellFormed(x)}, size)}

\* Lines 201-207: the new symbols that pass the filter, as a list; order:
\* the set new_symbols as iterating it yields its elements.
symbol_list(order) == SelectSeq(order, WellFormed)

\* if new_symbols and self.ws and self.session_id
Sends(symbols, ws, session, subscribed) ==
  symbols \ subscribed # {} /\ ws # "none" /\ session # "none"

\* Lines 210-211: the slices of symbol_list, when the method sends at all.
Slices(symbols, ws, session, subscribed, order) ==
  IF Sends(symbols, ws, session, subscribed)
  THEN BatchesOf(symbol_list(order), max_per_batch)
  ELSE <<>>

\* The symbols of a slice with the number of times each is in it.
RECURSIVE Carried(_)
Carried(batch) ==
  IF batch = <<>> THEN EmptyBag
  ELSE SetToBag({Head(batch)}) (+) Carried(Tail(batch))

\* The messages _update_subscriptions hands to ws.send, one after the other,
\* for these symbols, each taken as the bag of symbols it carries: the place
\* of a symbol inside its message is not modelled.
Messages(symbols, ws, session, subscribed, order) ==
  LET batches == Slices(symbols, ws, session, subscribed, order)
  IN [i \in 1..Len(batches) |-> Carried(batches[i])]

\* The symbols of symbol_list, from the messages made of it.
Listed(msgs) == UNION {BagToSet(msgs[i]) : i \in 1..Len(msgs)}

\* _get_session_id: the id of the answer, or what there was when it raised.
get_session_id(session, ok) == IF ok THEN "ok" ELSE session

\* Lines 81-85: the handshake and the connection, before the loop.
T3Start ==
  /\ t3_pc = "start"
  /\ \E ok \in BOOLEAN : t3_session' = get_session_id(t3_session, ok)
  /\ t3_ws' = "connecting"
  /\ t3_sent' = {}
  /\ t3_pc' = "head"
  /\ UNCHANGED <<t3_subscribed, t3_stop, t3_close_pc, t3_drops, t3_before>>
  /\ UNCHANGED t3_poll
  /\ UNCHANGED otherT3Conn

\* The socket opens (_on_open).
T3Open ==
  /\ t3_ws = "connecting"
  /\ t3_ws' = "open"
  /\ UNCHANGED <<t3_session, t3_subscribed, t3_sent, t3_pc, t3_stop,
                 t3_close_pc, t3_drops, t3_before>>
  /\ UNCHANGED t3_poll
  /\ UNCHANGED otherT3Conn

\* The feed drops the connection: _on_close up to its sleep(30), or to its
\* end when the stop event is set.
T3ConnLost ==
  /\ t3_ws \in {"connecting", "open"}
  /\ t3_drops < MaxDrops
  /\ t3_drops' = t3_drops + 1
  /\ t3_ws' = "closed"
  /\ t3_before' = t3_before \cup t3_sent
  /\ t3_close_pc' = IF t3_stop THEN "idle" ELSE "waiting"
  /\ UNCHANGED <<t3_session, t3_subscribed, t3_sent, t3_pc, t3_stop>>
  /\ UNCHANGED t3_poll
  /\ UNCHANGED otherT3Conn

\* _on_close after its sleep(30): a new handshake and a new connection.
T3Reconnect ==
  /\ t3_close_pc = "waiting"
  /\ \E ok \in BOOLEAN : t3_session' = get_session_id(t3_session, ok)
  /\ t3_ws' = "connecting"
  /\ t3_sent' = {}
  /\ t3_close_pc' = "idle"
  /\ UNCHANGED <<t3_subscribed, t3_pc, t3_stop, t3_drops, t3_before>>
  /\ UNCHANGED t3_poll
  /\ UNCHANGED otherT3Conn

\* _run_loop, loop test with the stop event clear: the thread enters the
\* loop body, which takes no further look at the event.
T3Enter ==
  /\ t3_pc = "head"
  /\ ~t3_stop
  /\ t3_pc' = "poll"
  /\ UNCHANGED <<t3_ws, t3_session, t3_subscribed, t3_sent, t3_stop,
                 t3_close_pc, t3_drops, t3_before>>
  /\ UNCHANGED t3_poll
  /\ UNCHANGED otherT3Conn

\* Lines 90-102: the three loads of a poll, each reading its document as it
\* is at that moment, and what all_symbols takes from it: the 'symbol'
\* fields of the validated snapshots, the keys of the Active Halts document,
\* the keys of the Breaking News document.
T3Load ==
  /\ t3_pc \in {"poll", "halts", "news"}
  /\ t3_poll' =
       CASE t3_pc = "poll" ->
              [symbols |-> ValidatedSymbols(vault_validated), msgs |-> <<>>,
               done |-> 0]
         [] t3_pc = "halts" ->
              [t3_poll EXCEPT !.symbols = @ \cup DOMAIN vault_active]
         [] t3_pc = "news" ->
              [t3_poll EXCEPT !.symbols = @ \cup DOMAIN vault_bk]
  /\ t3_pc' = CASE t3_pc = "poll" -> "halts"
                [] t3_pc = "halts" -> "news"
                [] t3_pc = "news" -> "update"
  /\ UNCHANGED <<t3_ws, t3_session, t3_subscribed, t3_sent, t3_stop,
                 t3_close_pc, t3_drops, t3_before>>
  /\ UNCHANGED otherT3Conn

\* _update_subscriptions up to its loop: the new symbols, the test of the
\* connection and the session id, and symbol_list, which fixes the messages
\* the loop will hand to ws.send. Without new symbols, connection or session
\* the method returns and the sleep begins.
T3Begin ==
  /\ t3_pc = "update"
  /\ \E order \in IterationOrders(t3_poll.symbols \ t3_subscribed, max_per_batch) :
       t3_poll' = [t3_poll EXCEPT !.msgs =
                     Messages(t3_poll.symbols, t3_ws, t3_session,
                              t3_subscribed, order)]
  /\ t3_pc' = IF Sends(t3_poll.symbols, t3_ws, t3_session, t3_subscribed)
              THEN "send" ELSE "sleep"
  /\ UNCHANGED <<t3_ws, t3_session, t3_subscribed, t3_sent, t3_stop,
                 t3_close_pc, t3_drops, t3_before>>
  /\ UNCHANGED otherT3Conn

\* One ws.send of the loop, on the socket as it is now: it returns, and the
\* feed holds the symbols of the message, or it raises (always so on a
\* socket that is not open) and the loop goes on.
T3Send ==
  /\ t3_pc = "send"
  /\ t3_poll.done < Len(t3_poll.msgs)
  /\ \E ok \in BOOLEAN :
       t3_sent' = t3_sent \cup
                    (IF t3_ws = "open" /\ ok
                     THEN BagToSet(t3_poll.msgs[t3_poll.done + 1]) ELSE {})
  /\ t3_poll' = [t3_poll EXCEPT !.done = @ + 1]
  /\ UNCHANGED <<t3_ws, t3_session, t3_subscribed, t3_pc, t3_stop,
                 t3_close_pc, t3_drops, t3_before>>
  /\ UNCHANGED otherT3Conn

\* self.subscribed_symbols.update(symbol_list), after the loop; then the
\* sleep(10) begins.
T3Mark ==
  /\ t3_pc = "send"
  /\ t3_poll.done = Len(t3_poll.msgs)
  /\ t3_subscribed' = t3_subscribed \cup Listed(t3_poll.msgs)
  /\ t3_pc' = "sleep"
  /\ UNCHANGED <<t3_ws, t3_session, t3_sent, t3_stop, t3_close_pc, t3_drops,
                 t3_before>>
  /\ UNCHANGED t3_poll
  /\ UNCHANGED otherT3Conn

\* One step of a poll of _run_loop, past the loop test, up to its
\* sleep(10). stop(), the close handler and the writers of the documents
\* run between these steps.
T3Poll == T3Load \/ T3Begin \/ T3Send \/ T3Mark

\* time.sleep(10) returns.
T3Wake ==
  /\ t3_pc = "sleep"
  /\ t3_pc' = "head"
  /\ UNCHANGED <<t3_ws, t3_session, t3_subscribed, t3_sent, t3_stop,
                 t3_close_pc, t3_drops, t3_before>>
  /\ UNCHANGED t3_poll
  /\ UNCHANGED otherT3Conn

\* Loop head with the stop event set: the thread ends.
T3Exit ==
  /\ t3_pc = "head"
  /\ t3_stop
  /\ t3_pc' = "done"
  /\ UNCHANGED <<t3_ws, t3_session, t3_subscribed, t3_sent, t3_stop,
                 t3_close_pc, t3_drops, t3_before>>
  /\ UNCHANGED t3_poll
  /\ UNCHANGED otherT3Conn

\* stop(): sets the event and closes the socket it finds; the close handler
\* then sees the event set and returns.
T3Stop ==
  /\ ~t3_stop
  /\ t3_stop' = TRUE
  /\ t3_ws' = IF t3_ws \in {"connecting", "open"} THEN "closed" ELSE t3_ws
  /\ UNCHANGED <<t3_session, t3_subscribed, t3_sent, t3_pc, t3_close_pc,
                 t3_drops, t3_before>>
  /\ UNCHANGED t3_poll
  /\ UNCHANGED otherT3Conn

\* The Active Halts document as the halt monitor may have left it.
ActiveHaltDocs ==
  {[s \in S |-> HaltData(FeedItem("symbol", s, TRUE, FALSE, "text"), 0)] :
     S \in SUBSET Symbols}

T3HaltsReplaced ==
  /\ \E d \in ActiveHaltDocs : d # vault_active /\ vault_active' = d
  /\ UNCHANGED <<vault_hist, h_pc, h_stop, h_clock, h_life, h_base, h_feed>>
  /\ UNCHANGED <<t1vars, newsvars, mkt_now, t2vars, t3connvars, t3tickvars, latevars>>

\* The Breaking News document as the News Collector may have left it:
\* records keyed by news id.
BreakingDocs ==
  {EmptyDoc} \cup
  {[id \in {it.news_id} |-> NewsRecord(it, BreakingMaxAge, "breaking")] :
     it \in {x \in NewsItems("finnhub") : ~x.excl /\ x.news_id = "n1"}}

T3NewsReplaced ==
  /\ \E d \in BreakingDocs : d # vault_bk /\ vault_bk' = d
  /\ UNCHANGED <<vault_gen, n_seen, n_idx, n_clock, n_pc, n_item, n_queue,
                 n_local, n_classified, n_log, n_stream, n_unsaved>>
  /\ UNCHANGED <<t1vars, haltvars, mkt_now, t2vars, t3connvars, t3tickvars, latevars>>

\* A quote snapshot of the Validated Snapshot document.
Snapshot(symbol) ==
  [symbol |-> symbol, bid |-> 498, ask |-> 502, bid_size |-> 3, ask_size |-> 4,
   last_update |-> 0]

\* The Validated Snapshot document as Tier-2 may have left it: empty, or one
\* symbol next to a trade-only snapshot (no 'symbol' field).
ValidatedDocs ==
  { <<>>,
    <<[price |-> 500, volume |-> 100, timestamp |-> 0], Snapshot("BBB")>> }

\* The Validated Snapshot document of a long Prefiltered Set: more symbols
\* than one subscribe message may carry, and strings that are no tickers.
ManyValidated ==
  [i \in 1..Cardinality(ManyTickers \cup OddStrings) |->
     Snapshot(SetToSeq(ManyTickers \cup OddStrings)[i])]

\* Tier-2 saves a Validated Snapshot document between two polls of Tier-3.
ValidatedReplacedFrom(docs) ==
  /\ \E d \in docs : d # vault_validated /\ vault_validated' = d
  /\ UNCHANGED <<t2_stream, t2_subs, t2_subscribed, t2_validated, t2_pc, t2_stop>>
  /\ UNCHANGED <<t1vars, haltvars, newsvars, mkt_now, t3connvars, t3tickvars, latevars>>

T3ValidatedReplaced == ValidatedReplacedFrom(ValidatedDocs)

T3ValidatedGrown == ValidatedReplacedFrom({<<>>, ManyValidated})

(***************************************************************************)
(* Tier-3 connection claims                                                *)
(***************************************************************************)

\* C9: after the Tier-3 stream disconnects with no stop signalled, Tier-3
\* reconnects and the feed again holds, on the new connection, every symbol
\* it held before the disconnect.
C9_ResubscribedAfterReconnect ==
  (t3_close_pc = "waiting")
    ~> (t3_stop \/ (t3_ws = "open" /\ t3_before \subseteq t3_sent))

\* The symbols that have an item in a news document: the set C12 speaks of,
\* where T3Load takes the document's keys.
NewsSymbols(doc) == {doc[id].symbol : id \in DOMAIN doc}

\* C12: every Tier-3 poll considers the union of the validated snapshots'
\* symbols, the symbols with an active halt and the symbols with an item in
\* the Breaking News document (each document as the poll loaded it), and
\* (holding a connection and a session) puts every well-formed symbol of
\* that union that is not yet subscribed into a subscribe message.
C12_PollSubscribesUnion ==
  /\ [][T3Load =>
          t3_poll'.symbols =
            CASE t3_pc = "poll" -> ValidatedSymbols(vault_validated)
              [] t3_pc = "halts" -> t3_poll.symbols \cup DOMAIN vault_active
              [] t3_pc = "news" -> t3_poll.symbols \cup NewsSymbols(vault_bk)]_vars
  /\ [][T3Begin =>
          LET u == t3_poll.symbols
              msgs == t3_poll'.msgs
          IN (t3_ws # "none" /\ t3_session # "none") =>
               \A x \in u \ t3_subscribed :
                 WellFormed(x) => \E i \in 1..Len(msgs) : BagIn(x, msgs[i])]_vars

\* The new symbols of the poll at _update_subscriptions that are non-empty,
\* alphabetic and at most 5 characters long.
NewWellFormed ==
  {x \in t3_poll.symbols \ t3_subscribed :
     x # "" /\ isalpha(x) /\ StrLen(x) <= 5}

\* The messages of msgs that carry x.
Carriers(x, msgs) == {i \in 1..Len(msgs) : BagIn(x, msgs[i])}

\* C13, as stated: every subscribe message of a poll carries at most 50
\* symbols, all of them non-empty, alphabetic and at most 5 characters long,
\* and each well-formed new symbol of a poll is in exactly one message of
\* that poll, once.
C13_EveryPollSendsEach ==
  [][T3Begin =>
       LET msgs == t3_poll'.msgs
       IN /\ \A i \in 1..Len(msgs) :
               /\ BagCardinality(msgs[i]) >= 1 /\ BagCardinality(msgs[i]) <= 50
               /\ BagToSet(msgs[i]) \subseteq NewWellFormed
          /\ \A x \in NewWellFormed :
               /\ Cardinality(Carriers(x, msgs)) = 1
               /\ \A i \in Carriers(x, msgs) : CopiesIn(x, msgs[i]) = 1]_vars

\* C13, amended: every subscribe message of a poll carries at most 50
\* symbols, all of them non-empty, alphabetic and at most 5 characters long;
\* a poll that holds a connection and a session id puts each well-formed new
\* symbol into exactly one of its messages, once; a poll that holds none
\* makes no message.
C13_BatchesOfFifty ==
  [][T3Begin =>
       LET msgs == t3_poll'.msgs
       IN /\ \A i \in 1..Len(msgs) :
               /\ BagCardinality(msgs[i]) >= 1 /\ BagCardinality(msgs[i]) <= 50
               /\ BagToSet(msgs[i]) \subseteq NewWellFormed
          /\ (t3_ws # "none" /\ t3_session # "none") =>
               \A x \in NewWellFormed :
                 /\ Cardinality(Carriers(x, msgs)) = 1
                 /\ \A i \in Carriers(x, msgs) : CopiesIn(x, msgs[i]) = 1
          /\ (t3_ws = "none" \/ t3_session = "none") => msgs = <<>>]_vars

\* A poll has just sent 51 well-formed new symbols in two messages, the
\* first of 50, and left the malformed strings of the union out.
C13_Witness ==
  /\ t3_pc = "sleep"
  /\ Len(t3_poll.msgs) = 2
  /\ BagCardinality(t3_poll.msgs[1]) = 50
  /\ BagCardinality(t3_poll.msgs[2]) = 1
  /\ OddStrings \subseteq t3_poll.symbols
  /\ ManyTickers \subseteq t3_subscribed
  /\ OddStrings \cap t3_subscribed = {}

\* C22: once stop() has completed and the consumer thread is past its
\* connection setup (and no close handler is still at work), the consumer
\* holds no connection that is connecting or open.
C22_NoConnectionAfterStop ==
  (t3_stop /\ t3_pc # "start" /\ t3_close_pc = "idle")
    => t3_ws \notin {"connecting", "open"}

\* C33: every symbol of Tier-3's subscribed set was carried by a subscribe
\* message whose send succeeded, on the present connection or on an earlier
\* one; so a symbol whose batch send failed is not in the set and a later
\* poll sends it again.
C33_SubscribedOnlyIfSent ==
  t3_subscribed \subseteq (t3_sent \cup t3_before)

\* C34: once stop() has been signalled, no step makes a new connection,
\* the close handler's reconnect after its delay included. (The setup of a
\* thread that had not yet connected when stop() ran is C22's case and is
\* left out here.)
C34_NoReconnectAfterStop ==
  [][(t3_stop /\ t3_pc # "start") =>
       ~(t3_ws # "connecting" /\ t3_ws' = "connecting")]_vars

\* C36: a session handshake that failed is attempted again while the
\* component runs, so that the polls can send the symbols of the union: from
\* any state past the setup without a session, Tier-3 comes to hold one
\* (or is stopped).
C36_HandshakeTriedAgain ==
  (t3_pc # "start" /\ t3_session = "none") ~> (t3_stop \/ t3_session = "ok")

InitTier3Conn ==
  /\ t3_ws = "none"
  /\ t3_session = "none"
  /\ t3_subscribed = {}
  /\ t3_sent = {}
  /\ t3_pc = "start"
  /\ t3_stop = FALSE
  /\ t3_close_pc = "idle"
  /\ t3_drops = 0
  /\ t3_before = {}
  /\ t3_poll = [symbols |-> {}, msgs |-> <<>>, done |-> 0]

NextTier3Conn ==
  \/ T3Start
  \/ T3Open
  \/ T3ConnLost
  \/ T3Reconnect
  \/ T3Enter
  \/ T3Poll
  \/ T3Wake
  \/ T3Exit
  \/ T3Stop
  \/ T3HaltsReplaced

\* The polls of a connection that stays up, over every source of symbols.
NextTier3Polls ==
  \/ T3Start
  \/ T3Open
  \/ T3Enter
  \/ T3Poll
  \/ T3Wake
  \/ T3HaltsReplaced
  \/ T3NewsReplaced
  \/ T3ValidatedReplaced

\* The polls of a connection that stays up, over a Validated Snapshot
\* document of more symbols than one message carries.
NextTier3Batches ==
  \/ T3Start
  \/ T3Open
  \/ T3Enter
  \/ T3Poll
  \/ T3Wake
  \/ T3ValidatedGrown

(***************************************************************************)
(* Tier-3 categorizer: ticks                                               *)
(***************************************************************************)

\* Ticks handled in a run.
MaxT3Events == 3

\* Seconds between two readings of the market clock.
TickSeconds == 300

NowSeconds(now) == now * TickSeconds

\* A quote message of the feed: prices in cents.
T3Quote(bid, ask, bidsz, asksz) ==
  [bid |-> bid, ask |-> ask, bidsz |-> bidsz, asksz |-> asksz]

T3QuoteSamples == {T3Quote(498, 502, 3, 4)}

\* A size the feed sends as a string of digits (the way it sends the price
\* that _handle_trade converts): kept apart from the number n.
Text(n) == -(1000 + n)

\* v is an int or a float (not None, not a string).
IsNumber(v) == v >= 0

\* A trade message of the feed: the price as float() gives it, the size as
\* received.
T3Trade(price, size) == [price |-> price, size |-> size]

\* Trades at 5.00 and 6.00 with a numeric size, and a trade at 5.00 whose
\* size is a string (a message without size, stored as None, goes the same
\* way through _enrich_stock_data).
T3TradeSamples ==
  {T3Trade(500, 100), T3Trade(600, 100), T3Trade(500, Text(100))}

\* d.get(k, default)
Get(d, k, default) == IF k \in DOMAIN d THEN d[k] ELSE default

\* Lines 235-245: live_data after a quote.
handle_quote_t3(live, symbol, q, now) ==
  Put(live, symbol,
      Merge(Get(live, symbol, <<>>),
            [symbol |-> symbol, bid |-> q.bid, ask |-> q.ask,
             bid_size |-> q.bidsz, ask_size |-> q.asksz, last_update |-> now]))

\* Lines 262-274: live_data after a trade.
handle_trade_t3(live, symbol, t, now) ==
  Put(live, symbol,
      Merge(Get(live, symbol, <<>>),
            [price |-> t.price, volume |-> t.size, timestamp |-> now]))

\* next((s for s in validated if s.get('symbol') == symbol), {})
ValidatedFor(validated, symbol) ==
  LET hits == {i \in 1..Len(validated) :
                 "symbol" \in DOMAIN validated[i] /\ validated[i].symbol = symbol}
  IN IF hits = {} THEN <<>>
     ELSE validated[CHOOSE i \in hits : \A j \in hits : i <= j]

\* Lines 289-294: the last trade price, else the mid of bid and ask, else 0.
PriceOfTick(live, enriched) ==
  IF Truthy(Get(live, "price", None)) THEN live.price
  ELSE LET bid == Get(enriched, "bid", 0)
           ask == Get(enriched, "ask", 0)
       IN IF Truthy(bid) /\ Truthy(ask) THEN (bid + ask) \div 2 ELSE 0

\* A change in hundredths of a percent: ((price - base) / base) * 100
PctMove(price, base) ==
  IF base > 0 THEN ((price - base) * 10000) \div base ELSE 0

\* Lines 302-308: day_highs, is_hod and hod_price for a price.
DayHigh(day_highs, symbol, price) ==
  LET current_high == Get(day_highs, symbol, price)
      is_hod == price > current_high
      highs == IF is_hod THEN Put(day_highs, symbol, price) ELSE day_highs
  IN [day_highs |-> highs, is_hod |-> is_hod,
      hod_price |-> Get(highs, symbol, price)]

Pruned_LastThree(samples, now, price) ==
  LET kept == SelectSeq(Append(samples, [ts |-> now, p |-> price]),
                        LAMBDA x : NowSeconds(x.ts) > NowSeconds(now) - 900)
  IN IF Len(kept) <= 3 THEN kept ELSE SubSeq(kept, Len(kept) - 2, Len(kept))

\* Lines 315-320: the samples kept after appending (now, price).
Pruned(samples, now, price) ==
  SelectSeq(Append(samples, [ts |-> now, p |-> price]),
            LAMBDA x : NowSeconds(x.ts) > NowSeconds(now) - 900)

\* Lines 322-336: the move against the last sample at least secs old.
MoveSince(samples, now, price, secs) ==
  LET old == SelectSeq(samples, LAMBDA x : NowSeconds(x.ts) <= NowSeconds(now) - secs)
  IN IF old # <<>> THEN PctMove(price, old[Len(old)].p) ELSE 0

\* Lines 310-312: current_vol / avg_vol if avg_vol > 0 else 0, in millionths.
\* The division raises TypeError on a volume that is None or a string.
RvolRaises(live, enriched) ==
  /\ Get(enriched, "volume_avg", 1000000) > 0
  /\ ~IsNumber(Get(live, "volume", 0))

Rvol(live, enriched) ==
  LET current_vol == Get(live, "volume", 0)
      avg_vol == Get(enriched, "volume_avg", 1000000)
  IN IF avg_vol > 0 THEN (current_vol * 1000000) \div avg_vol ELSE 0

\* _enrich_stock_data: the record, and the rolling state after it. When
\* the rvol line raises, the except branch returns the raw snapshot; what
\* the lines before it wrote to day_highs stays, and price_history is not
\* reached.
enrich_stock_data(symbol, live, validated, closes, day_highs, history, bkgnews, now, news_now) ==
  LET enriched == Merge(ValidatedFor(validated, symbol), live)
      price == PriceOfTick(live, enriched)
      prev_close == Get(closes, symbol, price)
      high == DayHigh(day_highs, symbol, price)
      samples == Pruned(Get(history, symbol, <<>>), now, price)
      has_news == symbol \in DOMAIN bkgnews
  IN IF RvolRaises(live, enriched)
     THEN [record |-> live, day_highs |-> high.day_highs, history |-> history]
     ELSE
     [record |->
        Merge(enriched,
              [price |-> price,
               gap_pct |-> PctMove(price, prev_close),
               is_hod |-> high.is_hod,
               hod_price |-> high.hod_price,
               rvol |-> Rvol(live, enriched),
               move_5min |-> MoveSince(samples, now, price, 300),
               move_10min |-> MoveSince(samples, now, price, 600),
               rvol_5min |-> Rvol(live, enriched),
               float |-> Get(enriched, "float", 50000000),
               has_breaking_news |-> has_news,
               news_age_hours |-> IF has_news
                                  THEN news_now - bkgnews[symbol].timestamp
                                  ELSE 999]),
      day_highs |-> high.day_highs,
      history |-> Put(history, symbol, samples)]

\* self.prev_closes: created empty and never written.
prev_closes == EmptyDoc

\* What detect_channel may answer: a channel, or none.
DetectOutcomes == {"none", "pregap", "hod", "runup", "rvsl"}

AddToChannel_Always(channels, channel, symbol) ==
  IF channel = "none" THEN channels
  ELSE [channels EXCEPT ![channel] = Append(@, symbol)]

\* Lines 370-374: the membership lists after a channel was assigned.
AddToChannel(channels, channel, symbol) ==
  IF channel = "none" \/ InSeq(symbol, channels[channel]) THEN channels
  ELSE [channels EXCEPT ![channel] = Append(@, symbol)]

\* Lines 377-384: the signal emitted for a channel.
SignalFor(channel) ==
  IF channel \in {"pregap", "hod", "runup", "rvsl"} THEN channel ELSE "none"

\* Lines 377-384: the events handed to the presentation layer for a record.
Emitted(channel, record) ==
  IF SignalFor(channel) = "none" THEN <<>>
  ELSE <<[signal |-> SignalFor(channel), data |-> record]>>

\* _categorize_symbol(symbol) on the live data a tick left.
Categorize(symbol, live, tick) ==
  /\ t3_events < MaxT3Events
  /\ t3_events' = t3_events + 1
  /\ t3_live' = live
  /\ \E channel \in DetectOutcomes :
       LET e == enrich_stock_data(symbol, live[symbol], vault_validated,
                                  prev_closes, t3_day_highs, t3_history,
                                  vault_bk, mkt_now, n_clock)
           price == Get(e.record, "price", None)
       IN /\ t3_day_highs' = e.day_highs
          /\ t3_history' = e.history
          /\ t3_channels' = AddToChannel(t3_channels, channel, symbol)
          /\ t3_track' = [t3_track EXCEPT ![symbol] =
                            [max |-> IF @.max = None \/ price > @.max
                                     THEN price ELSE @.max,
                             hod |-> Get(e.record, "hod_price", None)]]
          /\ t3_out' = [symbol |-> symbol, tick |-> tick, record |-> e.record,
                        channel |-> channel, signal |-> SignalFor(channel),
                        events |-> Emitted(channel, e.record),
                        prior |-> t3_track[symbol]]
  /\ UNCHANGED otherT3Tick

\* _handle_quote
T3QuoteTick ==
  \E s \in Symbols, q \in T3QuoteSamples :
    Categorize(s, handle_quote_t3(t3_live, s, q, mkt_now),
               [kind |-> "quote", msg |-> q])

\* _handle_trade
T3TradeTick ==
  \E s \in Symbols, t \in T3TradeSamples :
    Categorize(s, handle_trade_t3(t3_live, s, t, mkt_now),
               [kind |-> "trade", msg |-> t])

NoTrack == [max |-> None, hod |-> None]

NoOut == [symbol |-> "", tick |-> [kind |-> "none"], record |-> <<>>,
          channel |-> "none", signal |-> "none", events |-> <<>>,
          prior |-> NoTrack]

(***************************************************************************)
(* Tier-3 tick claims                                                      *)
(***************************************************************************)

\* C3: on every tick of a symbol that had earlier ticks, hod_price is not
\* below the hod_price of the symbol's previous tick, and is_hod is true
\* exactly when the tick's price strictly exceeds the highest price of the
\* symbol's earlier ticks.
C3_DayHighMonotone ==
  (t3_out # NoOut /\ t3_out.prior # NoTrack) =>
    /\ {"hod_price", "is_hod", "price"} \subseteq DOMAIN t3_out.record
    /\ t3_out.record.hod_price >= t3_out.prior.hod
    /\ t3_out.record.is_hod <=> (t3_out.record.price > t3_out.prior.max)

\* C17: a tick handled right after the same tick for the same symbol leaves
\* the symbol's snapshot equal, field by field, to what it was after the
\* first application.
C17_TickAppliedTwice ==
  [][\A s \in Symbols :
       (/\ t3_events' = t3_events + 1
        /\ t3_out.symbol = s
        /\ t3_out'.symbol = s
        /\ t3_out'.tick = t3_out.tick) => t3_live'[s] = t3_live[s]]_vars

Places(x, list) == {i \in 1..Len(list) : list[i] = x}

\* C20: after a tick whose record was assigned a channel, the symbol is in
\* that channel's membership list exactly once and exactly one event for
\* that channel, carrying the record, was emitted; after a tick whose record
\* was assigned no channel, the membership lists are as before and nothing
\* was emitted; no membership list ever holds a symbol twice.
C20_MembershipAndEvent ==
  [][t3_events' = t3_events + 1 =>
       LET c == t3_out'.channel
           s == t3_out'.symbol
       IN /\ c # "none" =>
               /\ Cardinality(Places(s, t3_channels'[c])) = 1
               /\ t3_out'.events = <<[signal |-> c, data |-> t3_out'.record]>>
          /\ c = "none" =>
               /\ t3_channels' = t3_channels
               /\ t3_out'.events = <<>>
          /\ \A ch \in DOMAIN t3_channels' : \A x \in Symbols :
               Cardinality(Places(x, t3_channels'[ch])) <= 1]_vars

\* Three ticks were classified hod: AAA, BBB, and AAA again while already a
\* member.
C20_Witness ==
  /\ t3_events = 3
  /\ t3_channels["hod"] = <<"AAA", "BBB">>
  /\ t3_out.symbol = "AAA"
  /\ t3_out.channel = "hod"
  /\ Len(t3_out.events) = 1

\* C31: the has_breaking_news flag of the record built for a tick of symbol
\* S is true exactly when the Breaking News document holds an item whose
\* symbol is S, and news_age_hours is then that item's age, 999 when there
\* is none.
C31_BreakingFlagFromVault ==
  [][t3_events' = t3_events + 1 =>
       LET s == t3_out'.symbol
           r == t3_out'.record
           items == {id \in DOMAIN vault_bk : vault_bk[id].symbol = s}
       IN /\ {"has_breaking_news", "news_age_hours"} \subseteq DOMAIN r
          /\ r.has_breaking_news <=> items # {}
          /\ items = {} => r.news_age_hours = 999
          /\ items # {} =>
               \E id \in items :
                 r.news_age_hours = n_clock - vault_bk[id].timestamp]_vars

InitTier3Ticks ==
  /\ t3_live = EmptyDoc
  /\ t3_day_highs = EmptyDoc
  /\ t3_history = EmptyDoc
  /\ t3_channels = [c \in {"pregap", "hod", "runup", "rvsl", "bkgnews"} |-> <<>>]
  /\ t3_events = 0
  /\ t3_track = [s \in Symbols |-> NoTrack]
  /\ t3_out = NoOut

NextTier3Ticks ==
  \/ T3QuoteTick
  \/ T3TradeTick
  \/ MktTick

\* The tick handlers alone, at one clock reading.
NextTier3Channels ==
  \/ T3QuoteTick
  \/ T3TradeTick

\* The tick handlers while the News Collector rewrites Breaking News.
NextTier3News ==
  \/ T3QuoteTick
  \/ T3TradeTick
  \/ T3NewsReplaced

(***************************************************************************)
(* _enrich_stock_data applied again to the state the ticks have left       *)
(***************************************************************************)

NoBuilds == [symbol |-> "", first |-> <<>>, same |-> <<>>, after |-> <<>>]

\* _enrich_stock_data(symbol, live) on the snapshot, the vault contents and
\* the clock readings of the present state, over the given rolling state.
Build(symbol, day_highs, history) ==
  enrich_stock_data(symbol, t3_live[symbol], vault_validated, prev_closes,
                    day_highs, history, vault_bk, mkt_now, n_clock)

\* The record of a symbol the ticks have given a snapshot is built, and
\* built again for the same snapshot, vault contents and clock readings:
\* once over the same rolling state, once over the rolling state as the
\* first build left it. The builds run on copies; the categorizer's own
\* state stays as the ticks left it.
EnrichTwice ==
  /\ \E s \in DOMAIN t3_live :
       LET first == Build(s, t3_day_highs, t3_history)
           same == Build(s, t3_day_highs, t3_history)
           after == Build(s, first.day_highs, first.history)
       IN /\ e_out' = [symbol |-> s, first |-> first.record,
                       same |-> same.record, after |-> after.record]
          /\ e_in' = [live |-> t3_live[s], day_highs |-> t3_day_highs,
                      history |-> t3_history, now |-> mkt_now]
  /\ UNCHANGED otherEnrich

(***************************************************************************)
(* Enriched Record claims                                                  *)
(***************************************************************************)

\* C18: the record built for every tick has a gap_pct; with a previous
\* close held for the symbol in prev_closes it is 0 when that close is <= 0
\* and otherwise (price - prev_close) / prev_close * 100 (here in hundredths
\* of a percent, rounded down).
C18_GapPct ==
  t3_out # NoOut =>
    LET r == t3_out.record
        s == t3_out.symbol
    IN /\ "gap_pct" \in DOMAIN r
       /\ s \in DOMAIN prev_closes =>
            LET pc == prev_closes[s]
            IN /\ pc <= 0 => r.gap_pct = 0
               /\ pc > 0 => /\ r.gap_pct * pc <= (r.price - pc) * 10000
                            /\ (r.gap_pct + 1) * pc > (r.price - pc) * 10000

\* C19: two builds for the same snapshot, the same rolling state, the same
\* vault contents and the same clock readings give identical records; so
\* does a second build that finds the rolling state as the first left it.
C19_BuildTwiceSame ==
  e_out # NoBuilds => (e_out.same = e_out.first /\ e_out.after = e_out.first)

\* The record of AAA was built twice five minutes after its first sample
\* (price then 5.00, now 6.00: move_5min +20.00 %), over a history of two
\* earlier samples.
C19_Witness ==
  /\ e_out.symbol = "AAA"
  /\ "move_5min" \in DOMAIN e_out.first
  /\ e_out.first.move_5min = 2000
  /\ e_out.first.price = 600
  /\ Len(e_in.history["AAA"]) = 2
  /\ e_out.after = e_out.first

InitEnrich ==
  /\ e_in = [live |-> <<>>, day_highs |-> EmptyDoc, history |-> EmptyDoc,
             now |-> 0]
  /\ e_out = NoBuilds

\* The ticks of a run, then the builds repeated on what they left. What
\* the detector answers does not reach _enrich_stock_data, and the builds
\* leave the categorizer's state alone: the ticks are taken in the runs
\* where no channel is assigned, up to the builds.
NextEnrich ==
  \/ (e_out = NoBuilds /\ T3QuoteTick /\ t3_out'.channel = "none")
  \/ (e_out = NoBuilds /\ T3TradeTick /\ t3_out'.channel = "none")
  \/ (e_out = NoBuilds /\ MktTick)
  \/ EnrichTwice

(***************************************************************************)
(* The polling loops' lifecycle: start(), stop() and _run_loop             *)
(***************************************************************************)

Loops == {"tier1", "tier2", "tier3", "secondary", "halt"}

\* How a loop waits between cycles: time.sleep(interval) in Tier-1, Tier-2
\* and Tier-3, stop_event.wait(interval) in the secondary news rotation and
\* the Halt Collector.
WaitKind(c) == IF c \in {"tier1", "tier2", "tier3"} THEN "sleep" ELSE "event"

\* start() calls per loop.
MaxThreads == 2

\* Where a new thread begins: HaltMonitor._run_loop fetches before its loop
\* and TradierCategorizer._run_loop runs its handshake and connection setup
\* before its loop; the others begin at the loop test.
FirstPc(c) == IF c \in {"halt", "tier3"} THEN "work" ELSE "head"

\* A thread as start() creates it. setup: it is still before Tier-3's loop,
\* in _get_session_id (a request without timeout) and _connect_websocket.
NewThread(c) ==
  [pc |-> FirstPc(c), due |-> FALSE, caught |-> FALSE, setup |-> c = "tier3"]

Live(threads) == {i \in 1..Len(threads) : threads[i].pc # "done"}

\* What the 5 s of join can run out on: a cycle's blocking calls (requests
\* with timeout=10, the scan of the universe) or a time.sleep still running.
\* A thread that can run is taken to end its steps within the 5 s.
Blocked(c, th) ==
  \/ th.pc = "work"
  \/ th.pc = "wait" /\ ~th.due /\ WaitKind(c) = "sleep"

\* start(): stop_event.clear(), a new Thread kept in self.thread.
start(c) ==
  /\ lc_caller = "idle"
  /\ Len(lc_threads) < MaxThreads
  /\ lc_loop' = c
  /\ lc_stop' = FALSE
  /\ lc_threads' = Append(lc_threads, NewThread(c))
  /\ UNCHANGED lc_caller
  /\ UNCHANGED otherLoops

\* The first start() of a loop.
LoopStart ==
  /\ lc_loop = "none"
  /\ \E c \in Loops : start(c)

\* start() after a stop() that has returned.
LoopRestart ==
  /\ lc_loop # "none"
  /\ lc_stop
  /\ start(lc_loop)

\* stop(): stop_event.set(), then self.thread.join(timeout=5) begins. A
\* thread the signal finds waiting is marked.
LoopStop ==
  /\ lc_loop # "none"
  /\ lc_caller = "idle"
  /\ ~lc_stop
  /\ lc_stop' = TRUE
  /\ lc_caller' = "joining"
  /\ lc_threads' = [i \in 1..Len(lc_threads) |->
                      IF lc_threads[i].pc = "wait"
                      THEN [lc_threads[i] EXCEPT !.caught = TRUE]
                      ELSE lc_threads[i]]
  /\ UNCHANGED lc_loop
  /\ UNCHANGED otherLoops

\* join(timeout=5) returns: self.thread has ended, or the 5 s ran out.
LoopJoin ==
  /\ lc_caller = "joining"
  /\ LET th == lc_threads[Len(lc_threads)]
     IN th.pc = "done" \/ Blocked(lc_loop, th)
  /\ lc_caller' = "idle"
  /\ UNCHANGED <<lc_loop, lc_stop, lc_threads>>
  /\ UNCHANGED otherLoops

Step(i, pc) ==
  /\ lc_threads' = [lc_threads EXCEPT ![i].pc = pc, ![i].due = FALSE]
  /\ UNCHANGED <<lc_loop, lc_stop, lc_caller>>
  /\ UNCHANGED otherLoops

\* while not self.stop_event.is_set()
LoopHead(i) ==
  /\ lc_threads[i].pc = "head"
  /\ Step(i, IF lc_stop THEN "done"
             ELSE IF lc_loop = "halt" THEN "wait" ELSE "work")

\* One cycle of work (run_scan, a poll, a fetch), its except branch included,
\* which the wait follows; or Tier-3's setup, which the loop test follows.
LoopWork(i) ==
  /\ lc_threads[i].pc = "work"
  /\ lc_threads' = [lc_threads EXCEPT
                      ![i].pc = IF lc_loop = "halt" \/ lc_threads[i].setup
                                THEN "head" ELSE "wait",
                      ![i].due = FALSE,
                      ![i].setup = FALSE]
  /\ UNCHANGED <<lc_loop, lc_stop, lc_caller>>
  /\ UNCHANGED otherLoops

\* The interval of a wait runs out.
IntervalExpires(i) ==
  /\ lc_threads[i].pc = "wait"
  /\ ~lc_threads[i].due
  /\ lc_threads' = [lc_threads EXCEPT ![i].due = TRUE]
  /\ UNCHANGED <<lc_loop, lc_stop, lc_caller>>
  /\ UNCHANGED otherLoops

\* The wait returns: time.sleep when its interval has run out,
\* stop_event.wait also as soon as the event is set.
LoopWake(i) ==
  /\ lc_threads[i].pc = "wait"
  /\ lc_threads[i].due \/ (WaitKind(lc_loop) = "event" /\ lc_stop)
  /\ Step(i, IF lc_loop = "halt" THEN "check" ELSE "head")

\* HaltMonitor._run_loop: if not self.stop_event.is_set() after the wait.
LoopCheck(i) ==
  /\ lc_threads[i].pc = "check"
  /\ Step(i, IF lc_stop THEN "head" ELSE "work")

ThreadStep ==
  \E i \in 1..Len(lc_threads) :
    \/ LoopHead(i)
    \/ LoopWork(i)
    \/ IntervalExpires(i)
    \/ LoopWake(i)
    \/ LoopCheck(i)

(***************************************************************************)
(* Lifecycle claims                                                        *)
(***************************************************************************)

\* C21: a loop that is waiting between cycles when the stop event is set
\* can leave the wait at once, whether or not its interval has run out; a
\* thread the signal found waiting starts no further cycle; and at the loop
\* test with the event set the thread ends.
C21_StopInterruptsWait ==
  /\ [](\A i \in 1..Len(lc_threads) :
          (lc_threads[i].pc = "wait" /\ lc_threads[i].caught)
            => ENABLED LoopWake(i))
  /\ [][\A i \in 1..Len(lc_threads) :
          lc_threads[i].caught => lc_threads'[i].pc # "work"]_vars
  /\ [][\A i \in 1..Len(lc_threads) :
          (lc_threads[i].pc = "head" /\ lc_stop /\ lc_threads'[i] # lc_threads[i])
            => lc_threads'[i].pc = "done"]_vars

\* C23: after start(), stop(), start() at most one thread of the loop is
\* alive.
C23_OneLoopAfterRestart == Cardinality(Live(lc_threads)) <= 1

(***************************************************************************)
(* NASDAQ halt scanner (scanners/tier2_halts.py)                           *)
(***************************************************************************)

\* Parts of one description.
MaxParts == 3

\* _fetch_halts calls in a run.
MaxScans == 2

\* Items of one feed document of the scanner.
MaxScanItems == 1

\* A part of a description, between two semicolons: the text up to and with
\* its first colon, and the text after it.
Part(label, text) == [label |-> label, text |-> text]

DescriptionParts ==
  {Part("Symbol:", s) : s \in Symbols}
  \cup { Part("Halt Time:", "14:30:00 ET"),
         Part("Resumption Time:", "15:00:00 ET"),
         Part("Reason:", "LUDP"),
         Part("Price:", "$285.50") }

\* The <description> texts of the feed's items: none (.text is None), or
\* parts in any order, no label twice.
Descriptions ==
  {[none |-> TRUE, parts |-> <<>>]}
  \cup {[none |-> FALSE, parts |-> q] :
          q \in {x \in UNION {[1..n -> DescriptionParts] : n \in 0..MaxParts} :
                   \A i, j \in 1..Len(x) : x[i].label = x[j].label => i = j}}

\* float(price_str) after '$' and ',' were removed, in cents.
PriceFloat(text) == IF text = "$285.50" THEN 28550 ELSE 0

\* Lines 134-157: the loop over the parts, threading halt_info.
RECURSIVE ParseParts(_, _)
ParseParts(parts, halt_info) ==
  IF parts = <<>> THEN halt_info
  ELSE LET part == Head(parts)
           next ==
             IF part.label = "Symbol:" THEN Put(halt_info, "symbol", part.text)
             ELSE IF part.label = "Halt Time:"
             THEN Put(halt_info, "halt_time", part.text)
             ELSE IF part.label = "Resumption Time:"
             THEN Put(Put(halt_info, "resume_time", part.text),
                      "status", "RESUMED")
             ELSE IF part.label = "Reason:"
             THEN LET with == Put(halt_info, "reason", part.text)
                  IN IF "resume" \notin DOMAIN with
                     THEN Put(with, "status", "HALTED") ELSE with
             ELSE IF part.label = "Price:"
             THEN Put(halt_info, "price", PriceFloat(part.text))
             ELSE halt_info
       IN ParseParts(Tail(parts), next)

\* _parse_halt_description: halt_info, or None (the empty mapping here) when
\* no part names a symbol or the description has no text.
parse_halt_description(description) ==
  IF description.none THEN EmptyDoc
  ELSE LET halt_info == ParseParts(description.parts, EmptyDoc)
       IN IF "symbol" \in DOMAIN halt_info THEN halt_info ELSE EmptyDoc

\* Lines 85-93: the record put on file for a new halt (without its
\* last_update stamp), pub_date being "pub".
ScanRecord(halt_info) ==
  [symbol |-> halt_info.symbol,
   status |-> halt_info.status,
   halt_time |-> Get(halt_info, "halt_time", "pub"),
   resume_time |-> None,
   reason |-> Get(halt_info, "reason", "Unknown"),
   price |-> Get(halt_info, "price", 0)]

\* Lines 68-108: the body of the loop over the items for one item. An item
\* whose halt_info has no status raises at halt_info['status'] and is
\* skipped.
ScanItem(active, description) ==
  LET halt_info == parse_halt_description(description)
  IN IF halt_info = EmptyDoc \/ "status" \notin DOMAIN halt_info THEN active
     ELSE IF halt_info.status = "HALTED"
     THEN IF halt_info.symbol \notin DOMAIN active
          THEN Put(active, halt_info.symbol, ScanRecord(halt_info))
          ELSE active
     ELSE IF halt_info.symbol \in DOMAIN active
          THEN Del(active, halt_info.symbol)
          ELSE active

RECURSIVE ScanItems(_, _)
ScanItems(active, items) ==
  IF items = <<>> THEN active
  ELSE ScanItems(ScanItem(active, Head(items)), Tail(items))

\* What one request of the feed yields: a failure, or the descriptions of
\* the document's items in order.
ScanFeeds ==
  {[ok |-> FALSE, items |-> <<>>]}
  \cup {[ok |-> TRUE, items |-> q] :
          q \in UNION {[1..n -> Descriptions] : n \in 0..MaxScanItems}}

\* _fetch_halts: the items are applied to self.active_halts, which is then
\* saved as the Active Halts document; a failed request changes nothing.
\* _save_active_halts logs a save that raises and returns: the map keeps
\* its new content and the document its old one.
FetchHaltsScan ==
  /\ hs_scans < MaxScans
  /\ hs_scans' = hs_scans + 1
  /\ \E feed \in ScanFeeds, outcome \in SaveOutcomes :
       /\ feed.ok \/ outcome = "ok"
       /\ hs_feed' = feed
       /\ hs_active' = IF feed.ok THEN ScanItems(hs_active, feed.items)
                       ELSE hs_active
       /\ vault_active' = IF feed.ok /\ outcome = "ok" THEN hs_active'
                          ELSE vault_active
  /\ UNCHANGED <<vault_hist, h_pc, h_stop, h_clock, h_life, h_base, h_feed>>
  /\ UNCHANGED otherScan

\* Whether a description has a part with this label.
HasPart(description, label) ==
  \E i \in 1..Len(description.parts) : description.parts[i].label = label

\* C38: for every item of the feed just read whose description names a
\* symbol, the parse gives status RESUMED when the description has a
\* 'Resumption Time' part, wherever it stands, and HALTED only when it has
\* a Reason and no Resumption Time; and a symbol whose last item of the feed
\* has a Resumption Time is not in the scanner's active-halt map afterwards.
C38_ResumptionMeansResumed ==
  \A i \in 1..Len(hs_feed.items) :
    LET description == hs_feed.items[i]
        halt_info == parse_halt_description(description)
    IN halt_info # EmptyDoc =>
         /\ HasPart(description, "Resumption Time:") =>
              Get(halt_info, "status", "") = "RESUMED"
         /\ Get(halt_info, "status", "") = "HALTED" =>
              /\ HasPart(description, "Reason:")
              /\ ~HasPart(description, "Resumption Time:")
         /\ (/\ HasPart(description, "Resumption Time:")
             /\ \A j \in (i + 1)..Len(hs_feed.items) :
                  parse_halt_description(hs_feed.items[j]) = EmptyDoc)
              => halt_info.symbol \notin DOMAIN hs_active

InitScanner ==
  /\ hs_active = EmptyDoc
  /\ hs_feed = [ok |-> FALSE, items |-> <<>>]
  /\ hs_scans = 0

NextScanner == FetchHaltsScan

InitLoops ==
  /\ lc_loop = "none"
  /\ lc_stop = FALSE
  /\ lc_threads = <<>>
  /\ lc_caller = "idle"

\* One start() and one stop().
NextLoopsStop ==
  \/ LoopStart
  \/ LoopStop
  \/ LoopJoin
  \/ ThreadStep

NextLoops ==
  \/ NextLoopsStop
  \/ LoopRestart

Init ==
  /\ InitTier1
  /\ InitHalt
  /\ InitNews
  /\ InitTier2
  /\ InitTier3Conn
  /\ InitTier3Ticks
  /\ InitEnrich
  /\ InitLoops
  /\ InitRace
  /\ InitScanner

Next ==
  \/ NextTier1
  \/ NextHalt
  \/ NextHaltShort
  \/ NextNews
  \/ NextNewsLoops
  \/ NextTier2
  \/ NextTier2Loss
  \/ NextTier2Subs
  \/ NextTier2Runs
  \/ NextTier2Race
  \/ NextTier3Conn
  \/ NextTier3Polls
  \/ NextTier3Batches
  \/ NextTier3Ticks
  \/ NextTier3Channels
  \/ NextTier3News
  \/ NextEnrich
  \/ NextLoops
  \/ NextScanner

Spec == Init /\ [][Next]_vars

SpecTier1 == Init /\ [][NextTier1]_vars

SpecHalt == Init /\ [][NextHalt]_vars

SpecHaltShort == Init /\ [][NextHaltShort]_vars

SpecNews == Init /\ [][NextNews]_vars

SpecNewsLoops == Init /\ [][NextNewsLoops]_vars


\* The threads of start() are scheduled: the primary thread starts, the
\* secondary loop fetches again after its wait, and an item in hand is
\* processed to the end.
SpecNewsFair ==
  /\ SpecNewsLoops
  /\ WF_vars(PrimaryStart)
  /\ WF_vars(SecondaryFetch)
  /\ WF_vars(\E a \in {"primary", "secondary"} : Process(a))

SpecTier2 == Init /\ [][NextTier2]_vars

SpecTier2Race == Init /\ [][NextTier2Race]_vars

SpecTier2Subs == Init /\ [][NextTier2Subs]_vars

SpecTier2Runs == Init /\ [][NextTier2Runs]_vars

\* The Tier-2 thread is scheduled: a tick that can run does run, and its
\* sleep ends.
SpecTier2Loss == Init /\ [][NextTier2Loss]_vars

SpecTier2Fair ==
  SpecTier2Loss /\ WF_vars(T2Enter) /\ WF_vars(T2Tick) /\ WF_vars(T2Wake)

SpecTier3Conn == Init /\ [][NextTier3Conn]_vars

\* The Tier-3 thread is scheduled, the close handler's sleep ends, and a
\* connection being made opens.
SpecTier3Fair ==
  /\ SpecTier3Conn
  /\ WF_vars(T3Enter)
  /\ WF_vars(T3Poll)
  /\ WF_vars(T3Wake)
  /\ WF_vars(T3Reconnect)
  /\ WF_vars(T3Open)

SpecTier3Polls == Init /\ [][NextTier3Polls]_vars

SpecTier3Batches == Init /\ [][NextTier3Batches]_vars

SpecEnrich == Init /\ [][NextEnrich]_vars

SpecLoopsStop == Init /\ [][NextLoopsStop]_vars

SpecLoops == Init /\ [][NextLoops]_vars

SpecTier3Ticks == Init /\ [][NextTier3Ticks]_vars

SpecTier3Channels == Init /\ [][NextTier3Channels]_vars

SpecTier3News == Init /\ [][NextTier3News]_vars

SpecScanner == Init /\ [][NextScanner]_vars

====
